---- MODULE Spec2Model ----
(***************************************************************************)
(* State-machine model of the realtimefmri preprocessing pipeline          *)
(* (realtimefmri/preprocess.py): Pipeline.__init__ / build / register and  *)
(* Pipeline.process, with the step classes the pipelines below are made of.*)
(*                                                                         *)
(* Python objects that are shared by reference are modelled as heap cells: *)
(* the step dictionaries of a spec (stepDicts), the global parameter       *)
(* dictionaries (globalMaps) and the step instances (instances).  A        *)
(* Pipeline object keeps references (ids) into these heaps, exactly as     *)
(* self.pipeline keeps the very dict objects it was given.                 *)
(***************************************************************************)
EXTENDS Integers, Sequences, FiniteSets, TLC

VARIABLES
    stepDicts,      \* heap of the spec's step dicts: id -> dict
    specPipeline,   \* the `pipeline` list of the spec: sequence of dict ids
    specStatic,     \* the `static_pipeline` list of the spec: sequence of dict ids
    declared,       \* the step dicts as the spec declared them (never written)
    globalMaps,     \* heap of global_parameters dicts: id -> dict
    globals0,       \* the global_parameters dicts as first supplied (never written)
    pipelines,      \* the Pipeline objects constructed so far, in construction order
    instances,      \* heap of step instances, in construction order
    constructed,    \* log of constructor calls made by build
    store,          \* the redis key/value store written by register
    pc,             \* "idle", or "running" while a process call is on the stack
    curPipe,        \* the Pipeline whose process is running (or ran last)
    curStep,        \* 1-based position of the loop of process in self.pipeline
    data_dict,      \* the frame of the running (or last) process call
    frame0,         \* that frame as it was when process was called
    instances0,     \* the instance heap as it was when process was called
    calls,          \* log of the run invocations of this process call
    outcome,        \* how the last process call ended: "none", "returned", "KeyError"
    prevOutcome,    \* how the process call before it on the same Pipeline ended,
                    \* and the step it stopped at
    lastOutcome,    \* per Pipeline: how its latest finished process call ended,
                    \* and the step it stopped at
    nframes,        \* number of process calls made so far
    builds,         \* log of the Pipeline(...) calls: how each ended
    scans,          \* the volumes the scanner delivers, in order of arrival
    maskDb,         \* the masks of the pycortex database: mask_type -> boolean volume
    unit,           \* a step instance driven directly by a caller (run, reset)
    log,            \* log of the calls made on that instance
    channel,        \* every message of the 'timestamped_volume' subscription, in order
    nread,          \* how many of them listen() has yielded to preprocess
    loop,           \* the receive loop of preprocess: "listening", or the error that ended it
    volumeMsgs,     \* every message of the collector's 'volume' subscription, in order
    cread,          \* how many of them listen() has yielded to collect
    timestamps,     \* the redis list 'timestamp' (left end first)
    collector,      \* the loop of collect: "listening", or the error that ended it
    writes,         \* per key of the store: how many r.set calls were made on it
    error,          \* the exception the last process call raised, if it raised
    scanner,        \* the Scanner object: its active flag and its sync_queue
    collectTask,    \* the pulse-collecting coroutine: where it stands, when its sleep ends
    consumeTask,    \* the queue-consuming coroutine: where it stands, its recv_time
    sent,           \* every message sent on the scanner's PUSH socket, in order
    pulses,         \* the time of every pulse detected so far, in order of detection
    now             \* the clock time.time() reads, in seconds

vars == <<stepDicts, specPipeline, specStatic, declared, globalMaps, globals0,
          pipelines, instances, constructed, store, pc, curPipe, curStep,
          data_dict, frame0, instances0, calls, outcome, prevOutcome,
          lastOutcome, nframes, builds, scans, maskDb, unit, log,
          channel, nread, loop, volumeMsgs, cread, timestamps, collector, writes,
          error, scanner, collectTask, consumeTask, sent, pulses, now>>

buildVars == <<stepDicts, globalMaps, pipelines, constructed, store, builds, writes>>
specVars == <<specPipeline, specStatic, declared, globals0, scans, maskDb>>
unitVars == <<unit, log>>
streamVars == <<channel, nread, loop>>
collectVars == <<volumeMsgs, cread, timestamps, collector>>
scanVars == <<scanner, collectTask, consumeTask, sent, pulses, now>>
sourceVars == <<unitVars, collectVars, scanVars>>

(***************************************************************************)
(* Bounds                                                                  *)
(***************************************************************************)
MaxSteps == 3       \* longest `pipeline` list of a spec
MaxFrames == 2      \* process calls per behaviour
MaxPipelines == 2   \* Pipeline objects constructed per behaviour (SpecShared)
MaxSharedSteps == 2 \* longest `pipeline` list of a spec built twice (SpecShared)
MaxBuilds == 3      \* Pipeline(...) calls per behaviour
MaxCalls == 4       \* calls made on an IncrementalMeanStd driven directly (SpecUnit)
MaxWindowCalls == 3 \* calls made on a RunningMeanStd driven directly
MaxZCalls == 2      \* calls made on a ZScore driven directly
MaxWindow == 2      \* largest window n of a RunningMeanStd
MaxSkip == 1        \* largest n_skip of a RunningMeanStd
MaxImage == 2       \* largest image_number handed to RunningMeanStd.run
MaxVolumes == 3     \* frames a scan delivers to the z-scoring pipeline
MaxLevel == 2       \* distinct volumes the scanner can deliver: Volume(0..MaxLevel)
MaxMaskSpan == 4    \* the masks drawn are True within the first MaxMaskSpan voxels only
MaxMessages == 3    \* messages published on a channel per behaviour
MaxPulses == 3      \* timestamps pushed on the 'timestamp' list per behaviour
MaxPaths == 2       \* distinct volume files the scanner writes
MaxClock == 5       \* seconds of scanning followed
GridZ == 1          \* shape of a volume and of a mask, in pycortex order (z, y, x)
GridY == 2
GridX == 2

(***************************************************************************)
(* Values held by a frame.  Every value is a record of the same shape so   *)
(* that any two are comparable; `kind` tells what the Python object is.    *)
(***************************************************************************)
Val(k, x, y) == [kind |-> k, a |-> x, b |-> y]
None == Val("None", 0, 0)
IntVal(n) == Val("int", n, 0)
Nii(n) == Val("nii", n, 0)          \* a Nifti image whose data is volume n
Arr(n, d) == Val("array", n, d)     \* ndarray: volume n, mosaicked d times

EmptyDict == <<>>
NoUnit == [class_name |-> "none"]
Range(s) == {s[i] : i \in DOMAIN s}

\* dict.update / dict[k] = v on a mapping
DictSet(d, k, v) == [x \in (DOMAIN d) \cup {k} |-> IF x = k THEN v ELSE d[x]]
DictUpdate(d, e) == [x \in (DOMAIN d) \cup (DOMAIN e) |-> IF x \in DOMAIN e THEN e[x] ELSE d[x]]


(***************************************************************************)
(* Numbers and arrays.  A float is modelled exactly, as the real number    *)
(* num * sqrt(rad) / den kept in lowest terms (rad square-free, den > 0);  *)
(* den = 0 stands for a non-finite float: inf (num = 1), -inf (num = -1),  *)
(* nan (num = 0).  Rounding is not modelled.                               *)
(***************************************************************************)
Abs(n) == IF n < 0 THEN 0 - n ELSE n
Sign(n) == IF n < 0 THEN 0 - 1 ELSE IF n > 0 THEN 1 ELSE 0

RECURSIVE Gcd(_, _)
Gcd(m, n) == IF n = 0 THEN m ELSE Gcd(n, m % n)

\* the largest s whose square divides r (r > 0)
RECURSIVE SquarePartFrom(_, _)
SquarePartFrom(r, s) ==
    IF s * s > r THEN 1
    ELSE LET rest == SquarePartFrom(r, s + 1)
         IN  IF rest > 1 THEN rest ELSE IF r % (s * s) = 0 THEN s ELSE 1
SquarePart(r) == SquarePartFrom(r, 2)

Num(n, d, r) == [num |-> n, den |-> d, rad |-> r]
Int2Num(n) == Num(n, 1, 1)
Zero == Num(0, 1, 1)
One == Num(1, 1, 1)
NaN == Num(0, 0, 1)

\* the float with the value n * sqrt(r) / d  (r >= 0)
Canon(n, d, r) ==
    IF d = 0 THEN Num(IF r = 0 THEN 0 ELSE Sign(n), 0, 1)
    ELSE IF n = 0 \/ r = 0 THEN Zero
    ELSE LET s == SquarePart(r)
             n1 == Sign(d) * n * s
             g == Gcd(Abs(n1), Abs(d))
         IN  Num(n1 \div g, Abs(d) \div g, r \div (s * s))

IsFinite(p) == p.den # 0
IsNaN(p) == p.den = 0 /\ p.num = 0

\* p + q and p - q for rationals (rad = 1), p * q; inf and nan as IEEE 754
\* has them
NumAdd(p, q) ==
    IF IsNaN(p) \/ IsNaN(q) THEN NaN
    ELSE IF ~IsFinite(p) THEN (IF ~IsFinite(q) /\ q.num # p.num THEN NaN ELSE p)
    ELSE IF ~IsFinite(q) THEN q
    ELSE Canon(p.num * q.den + q.num * p.den, p.den * q.den, 1)
NumNeg(p) == Num(0 - p.num, p.den, p.rad)
NumSub(p, q) == NumAdd(p, NumNeg(q))
NumMul(p, q) ==
    IF IsNaN(p) \/ IsNaN(q) THEN NaN
    ELSE IF ~IsFinite(p) \/ ~IsFinite(q)
    THEN Canon(Sign(p.num) * Sign(q.num), 0, 1)
    ELSE Canon(p.num * q.num, p.den * q.den, p.rad * q.rad)

\* p / q for a rational p and q = qn * sqrt(qr) / qd: a zero divisor gives
\* inf, -inf or nan and no error
NumDiv(p, q) ==
    IF IsNaN(p) \/ IsNaN(q) THEN NaN
    ELSE IF ~IsFinite(q) THEN (IF IsFinite(p) THEN Zero ELSE NaN)
    ELSE IF ~IsFinite(p) THEN Canon(p.num * (IF q.num < 0 THEN 0 - 1 ELSE 1), 0, 1)
    ELSE Canon(p.num * q.den, p.den * q.num * q.rad, q.rad)

\* sqrt(p) for a rational p >= 0
NumSqrt(p) ==
    IF ~IsFinite(p) THEN p ELSE Canon(1, p.den, p.num * p.den)

RECURSIVE NumSum(_)
NumSum(s) == IF s = <<>> THEN Zero ELSE NumAdd(Head(s), NumSum(Tail(s)))

\* numpy.ndarray: the elements in C (row-major) order and the shape
NdArray(flat, shape) == Val("ndarray", flat, shape)
IsNd(v) == v.kind = "ndarray"
Shape(v) == IF IsNd(v) THEN v.b ELSE <<>>
\* array.ravel(), array.reshape(shape), array.size
Ravel(v) == IF IsNd(v) THEN NdArray(v.a, <<Len(v.a)>>) ELSE v
Reshape(v, shape) == IF IsNd(v) THEN NdArray(v.a, shape) ELSE v
Size(v) == Len(v.a)

\* Three-dimensional arrays: the index (1-based) of the p-th element in C
\* order, and the position in C order of the element at an index
Index3(shape, p) ==
    <<((p - 1) \div (shape[2] * shape[3])) + 1,
      (((p - 1) \div shape[3]) % shape[2]) + 1,
      ((p - 1) % shape[3]) + 1>>
Pos3(shape, idx) == ((idx[1] - 1) * shape[2] + (idx[2] - 1)) * shape[3] + idx[3]
Reverse3(t) == <<t[3], t[2], t[1]>>

\* array.T of a three-dimensional array: the axes reversed
Transpose(v) ==
    LET shapeT == Reverse3(v.b)
    IN  NdArray([p \in 1..Len(v.a) |-> v.a[Pos3(v.b, Reverse3(Index3(shapeT, p)))]], shapeT)

\* array.ravel(order): 'C' is the last axis fastest, 'F' the first axis fastest
RavelOrder(v, order) == IF order = "F" THEN Transpose(v).a ELSE v.a

\* array[mask] with a boolean mask of the array's shape, or a sequence with
\* a boolean sequence of its length: the elements at the True positions, in
\* C order
RECURSIVE Select(_, _)
Select(flat, m) ==
    IF flat = <<>> THEN <<>>
    ELSE (IF Head(m) THEN <<Head(flat)>> ELSE <<>>) \o Select(Tail(flat), Tail(m))
BoolIndex(v, mask) ==
    LET sel == Select(v.a, mask.a) IN NdArray(sel, <<Len(sel)>>)

\* array[indices] with an array of integer indices (0-based) into the first
\* axis of a vector or of a column (shape (N,) or (N, 1)); array[mask] with
\* a boolean vector selects the rows at the True positions
IndexArray(seq) == Val("indices", seq, <<Len(seq)>>)
TakeRows(v, idx) ==
    IF idx.kind = "indices"
    THEN NdArray([i \in 1..Len(idx.a) |-> v.a[idx.a[i] + 1]], <<Len(idx.a)>> \o Tail(v.b))
    ELSE LET sel == Select(v.a, idx.a) IN NdArray(sel, <<Len(sel)>> \o Tail(v.b))

\* image_utils.secondary_mask(mask1, mask2, order): the true positions of
\* mask1 are enumerated in raster order (`order`); the ordinal within that
\* list of each position that is true in mask2 too is recorded
SecondaryMask(mask1, mask2, order) ==
    LET f1 == RavelOrder(mask1, order)
        f2 == RavelOrder(mask2, order)
        In1(p) == f1[p]
        truePositions == SelectSeq([p \in 1..Len(f1) |-> p], In1)
        In2(i) == f2[truePositions[i]]
        ordinals == SelectSeq([i \in 1..Len(truePositions) |-> i], In2)
    IN  IndexArray([i \in 1..Len(ordinals) |-> ordinals[i] - 1])

GridShape == <<GridZ, GridY, GridX>>
GridSize == GridZ * GridY * GridX
\* the boolean volume that is True at the C-order positions in set
MaskOf(set) == NdArray([p \in 1..GridSize |-> p \in set], GridShape)

\* The pycortex database of the pipeline specifications: a mask that leaves
\* out the first voxel, and the default mask (every voxel)
CortexMasks == ("thick" :> MaskOf(2..GridSize) @@ "None" :> MaskOf(1..GridSize))

(***************************************************************************)
(* Step classes: constructors                                              *)
(***************************************************************************)
\* PreprocessingStep.__init__ and the overriding constructors: the value of
\* self._parameters for a step of class cls constructed with **kwargs
\* (a named constructor argument takes the keyword's value when given, its
\* default otherwise; parameters.update(kwargs) adds the remaining keywords).
StepParameters(cls, kwargs) ==
    CASE cls = "SaveNifti" ->
            DictUpdate(("recording_id" :> "None" @@ "path_format" :> "volume_{:04}.nii"), kwargs)
      [] cls = "VolumeToMosaic" ->
            DictUpdate(("dim" :> "0"), kwargs)
      [] cls = "ApplyMask" ->
            DictUpdate(("mask_type" :> "None"), kwargs)
      [] cls = "RunningMeanStd" ->
            DictUpdate(("n" :> 20 @@ "n_skip" :> 5), kwargs)
      [] OTHER -> kwargs

\* cortex.db.get_mask(surface, transform, mask_type): a lookup in the
\* database db of the one subject the model has
GetMask(db, surface, transform, mask_type) == db[mask_type]

\* Mutant of ComposedMask: the transposed masks are unravelled in C order
ComposedMaskRowMajor(db, params) ==
    SecondaryMask(Transpose(GetMask(db, params.surface, params.transform, params.mask_type_1)),
                  Transpose(GetMask(db, params.surface, params.transform, params.mask_type_2)),
                  "C")

\* ApplySecondaryMask.__init__: both masks transposed to xyz, then composed
\* with order='F'
ComposedMask(db, params) ==
    SecondaryMask(Transpose(GetMask(db, params.surface, params.transform, params.mask_type_1)),
                  Transpose(GetMask(db, params.surface, params.transform, params.mask_type_2)),
                  "F")

\* The attributes a constructor sets on the instance besides _parameters
InitAttrs(cls, kwargs, db) ==
    LET params == StepParameters(cls, kwargs)
    IN  CASE cls = "ApplyMask" ->
                ("mask" :> GetMask(db, params.surface, params.transform, params.mask_type))
          [] cls = "ApplySecondaryMask" -> ("mask" :> ComposedMask(db, params))
          [] cls = "ArrayMean" -> ("dimensions" :> Val("tuple", params.dimensions.a, 0))
          [] cls = "RunningMeanStd" ->
                ("n" :> params.n @@ "mean" :> None @@ "samples" :> None
                    @@ "n_skip" :> params.n_skip)
          [] OTHER -> EmptyDict

\* cls(*args, **kwargs): a fresh instance.  IncrementalMeanStd has no `data`
\* attribute until its first run (hasData = FALSE); attrs holds the other
\* attributes of the instance, by name; db is the pycortex database.
NewInstance(cls, kwargs, pid, db) ==
    [class_name |-> cls,
     parameters |-> StepParameters(cls, kwargs),
     pipeline |-> pid,
     hasData |-> FALSE,
     data |-> <<>>,
     attrs |-> InitAttrs(cls, kwargs, db)]

(***************************************************************************)
(* Step classes: run                                                       *)
(***************************************************************************)
\* What run returned: a tuple (isTuple, items) or one object that is not a
\* list or tuple (value).
RetTuple(s) == [isTuple |-> TRUE, items |-> s, value |-> None]
RetSingle(v) == [isTuple |-> FALSE, items |-> <<>>, value |-> v]

RECURSIVE SumOf(_)
SumOf(s) == IF s = <<>> THEN 0 ELSE Head(s).a + SumOf(Tail(s))
RECURSIVE SumSqOf(_)
SumSqOf(s) == IF s = <<>> THEN 0 ELSE Head(s).a * Head(s).a + SumSqOf(Tail(s))

\* np.mean(buffer, 0) as the fraction a/b; np.std(buffer, 0) as the square
\* root of the fraction a/b (population variance).
MeanOf(s) == Val("mean", SumOf(s), Len(s))
StdOf(s) == Val("std", Len(s) * SumSqOf(s) - SumOf(s) * SumOf(s), Len(s) * Len(s))

DebugRun(inst, inputs) ==
    LET of == IF inputs[1].kind = "nii" THEN "nii" ELSE "array"
    IN  [ret |-> RetTuple(<<Val(IF of = "nii" THEN "str(nii)" ELSE "str(array)",
                                inputs[1].a, inputs[1].b),
                            Val(IF of = "nii" THEN "shape(nii)" ELSE "shape(array)",
                                inputs[1].a, inputs[1].b)>>),
         inst |-> inst]

SaveNiftiRun(inst, inputs) ==
    [ret |-> RetSingle(None), inst |-> inst]

NiftiToVolumeRun(inst, inputs) ==
    [ret |-> RetSingle(Arr(inputs[1].a, 0)), inst |-> inst]

VolumeToMosaicRun(inst, inputs) ==
    [ret |-> RetSingle(Arr(inputs[1].a, inputs[1].b + 1)), inst |-> inst]

\* buffered_array.BufferedArray: a new buffer, append (a flattened copy goes
\* last), get_array (the stored vectors, stacked in arrival order)
BufferedArray(size) == <<>>
BufferedAppend(buf, vector) == Append(buf, vector)
GetArray(buf) == buf

\* The j-th column of a stack of equally long vectors
Column(rows, j) == [i \in 1..Len(rows) |-> rows[i].a[j]]

\* np.mean(x) and np.std(x) of a sequence of numbers: the sum over the
\* count, and the square root of the mean squared deviation from the mean
NumMean(col) == NumDiv(NumSum(col), Int2Num(Len(col)))
NumStd(col) ==
    LET mu == NumMean(col)
        dev2 == [i \in 1..Len(col) |-> NumMul(NumSub(col[i], mu), NumSub(col[i], mu))]
    IN  NumSqrt(NumMean(dev2))

\* np.mean(rows, 0) and np.std(rows, 0): one value per column
NpMean(rows) ==
    IF IsNd(rows[1])
    THEN NdArray([j \in 1..Size(rows[1]) |-> NumMean(Column(rows, j))], <<Size(rows[1])>>)
    ELSE MeanOf(rows)
NpStd(rows) ==
    IF IsNd(rows[1])
    THEN NdArray([j \in 1..Size(rows[1]) |-> NumStd(Column(rows, j))], <<Size(rows[1])>>)
    ELSE StdOf(rows)

\* Mutant of IncrementalMeanStdRun: the statistics are taken before the
\* current sample is appended
IncrementalMeanStdStale(inst, inputs) ==
    IF ~inst.hasData
    THEN [ret |-> RetTuple(<<None, None>>),
          inst |-> [inst EXCEPT !.hasData = TRUE,
                                !.attrs = DictSet(inst.attrs, "array_shape", Shape(inputs[1])),
                                !.data = BufferedAppend(BufferedArray(Size(inputs[1])),
                                                        Ravel(inputs[1]))]]
    ELSE [ret |-> RetTuple(<<Reshape(NpMean(GetArray(inst.data)), inst.attrs.array_shape),
                             Reshape(NpStd(GetArray(inst.data)), inst.attrs.array_shape)>>),
          inst |-> [inst EXCEPT !.data = BufferedAppend(inst.data, Ravel(inputs[1]))]]

\* Mutant of IncrementalMeanStdRun: the first sample is not kept
IncrementalMeanStdDropsFirst(inst, inputs) ==
    IF ~inst.hasData
    THEN [ret |-> RetTuple(<<None, None>>),
          inst |-> [inst EXCEPT !.hasData = TRUE,
                                !.attrs = DictSet(inst.attrs, "array_shape", Shape(inputs[1])),
                                !.data = BufferedArray(Size(inputs[1]))]]
    ELSE LET buf == BufferedAppend(inst.data, Ravel(inputs[1]))
         IN  [ret |-> RetTuple(<<Reshape(NpMean(GetArray(buf)), inst.attrs.array_shape),
                                 Reshape(NpStd(GetArray(buf)), inst.attrs.array_shape)>>),
              inst |-> [inst EXCEPT !.data = buf]]

IncrementalMeanStdRun(inst, inputs) ==
    IF ~inst.hasData
    THEN [ret |-> RetTuple(<<None, None>>),
          inst |-> [inst EXCEPT !.hasData = TRUE,
                                !.attrs = DictSet(inst.attrs, "array_shape", Shape(inputs[1])),
                                !.data = BufferedAppend(BufferedArray(Size(inputs[1])),
                                                        Ravel(inputs[1]))]]
    ELSE LET buf == BufferedAppend(inst.data, Ravel(inputs[1]))
         IN  [ret |-> RetTuple(<<Reshape(NpMean(GetArray(buf)), inst.attrs.array_shape),
                                 Reshape(NpStd(GetArray(buf)), inst.attrs.array_shape)>>),
              inst |-> [inst EXCEPT !.data = buf]]

\* Mutant of IncrementalMeanStdReset: the buffer is kept
IncrementalMeanStdResetKeeps(inst) == inst

\* IncrementalMeanStd.reset: del self.data
IncrementalMeanStdReset(inst) == [inst EXCEPT !.hasData = FALSE, !.data = <<>>]

\* The non-nan entries of a sequence of numbers
NotNaN(col) == SelectSeq(col, LAMBDA x : ~IsNaN(x))

\* np.nanmean(samples, 0) and np.nanstd(samples, 0) of a two-dimensional
\* array: per column, over the entries that are not nan (nan when all are)
ColumnOf(samples, j) ==
    [i \in 1..samples.b[1] |-> samples.a[(i - 1) * samples.b[2] + j]]
NanMean(samples) ==
    NdArray([j \in 1..samples.b[2] |->
                IF NotNaN(ColumnOf(samples, j)) = <<>> THEN NaN
                ELSE NumMean(NotNaN(ColumnOf(samples, j)))], <<samples.b[2]>>)
NanStd(samples) ==
    NdArray([j \in 1..samples.b[2] |->
                IF NotNaN(ColumnOf(samples, j)) = <<>> THEN NaN
                ELSE NumStd(NotNaN(ColumnOf(samples, j)))], <<samples.b[2]>>)

\* np.zeros(n), np.ones(n), np.empty((n, size)) * np.nan
Zeros(n) == NdArray([j \in 1..n |-> Zero], <<n>>)
Ones(n) == NdArray([j \in 1..n |-> One], <<n>>)
AllNaN(n, size) == NdArray([j \in 1..(n * size) |-> NaN], <<n, size>>)

\* samples[:-1, :] = samples[1:, :]: every row but the last takes the row
\* below it; samples[-1, :] = inp: the last row takes inp
ShiftUp(samples) ==
    LET size == samples.b[2]
    IN  NdArray([p \in 1..Len(samples.a) |->
                    IF p + size <= Len(samples.a) THEN samples.a[p + size] ELSE samples.a[p]],
                samples.b)
SetLastRow(samples, inp) ==
    LET size == samples.b[2]
        top == Len(samples.a) - size
    IN  NdArray([p \in 1..Len(samples.a) |->
                    IF p > top THEN inp.a[p - top] ELSE samples.a[p]], samples.b)

\* Mutant of RunningMeanStdRun: the warm-up test counts the samples inserted
\* so far instead of reading image_number
RunningMeanStdSkipsByCount(inst, inputs) ==
    LET inp == inputs[1]
        at == inst.attrs
        seen == IF at.mean.kind = "None" THEN 0 ELSE Len(NotNaN(ColumnOf(at.samples, 1)))
        samples0 == IF at.mean.kind = "None" THEN AllNaN(at.n, Size(inp))
                    ELSE ShiftUp(at.samples)
        samples1 == SetLastRow(samples0, inp)
    IN  IF seen < at.n_skip /\ inputs[2].a < at.n_skip
        THEN [ret |-> RetTuple(<<Zeros(Size(inp)), Ones(Size(inp))>>), inst |-> inst]
        ELSE [ret |-> RetTuple(<<NanMean(samples1), NanStd(samples1)>>),
              inst |-> [inst EXCEPT !.attrs = DictUpdate(at, ("samples" :> samples1
                                           @@ "mean" :> NanMean(samples1)
                                           @@ "std" :> NanStd(samples1)))]]

\* Mutant of RunningMeanStdRun: the window is not shifted before the insert
RunningMeanStdNoShift(inst, inputs) ==
    LET inp == inputs[1]
        at == inst.attrs
        samples0 == IF at.mean.kind = "None" THEN AllNaN(at.n, Size(inp)) ELSE at.samples
        samples1 == SetLastRow(samples0, inp)
    IN  IF inputs[2].a < at.n_skip
        THEN [ret |-> RetTuple(<<Zeros(Size(inp)), Ones(Size(inp))>>), inst |-> inst]
        ELSE [ret |-> RetTuple(<<NanMean(samples1), NanStd(samples1)>>),
              inst |-> [inst EXCEPT !.attrs = DictUpdate(at, ("samples" :> samples1
                                           @@ "mean" :> NanMean(samples1)
                                           @@ "std" :> NanStd(samples1)))]]

\* RunningMeanStd.run(inp, image_number)
RunningMeanStdRun(inst, inputs) ==
    LET inp == inputs[1]
        at == inst.attrs
        samples0 == IF at.mean.kind = "None" THEN AllNaN(at.n, Size(inp))
                    ELSE ShiftUp(at.samples)
        samples1 == SetLastRow(samples0, inp)
    IN  IF inputs[2].a < at.n_skip
        THEN [ret |-> RetTuple(<<Zeros(Size(inp)), Ones(Size(inp))>>), inst |-> inst]
        ELSE [ret |-> RetTuple(<<NanMean(samples1), NanStd(samples1)>>),
              inst |-> [inst EXCEPT !.attrs = DictUpdate(at, ("samples" :> samples1
                                           @@ "mean" :> NanMean(samples1)
                                           @@ "std" :> NanStd(samples1)))]]

\* np.zeros_like(array); (array - mean) / std, element by element
ZerosLike(array) == NdArray([j \in 1..Size(array) |-> Zero], array.b)
Standardize(array, mean, std) ==
    NdArray([j \in 1..Size(array) |-> NumDiv(NumSub(array.a[j], mean.a[j]), std.a[j])],
            array.b)

\* Mutant of ZScoreRun: the zero array is returned only when std is None too
ZScoreNeedsBothNone(inst, inputs) ==
    IF inputs[2].kind = "None" /\ inputs[3].kind = "None"
    THEN [ret |-> RetSingle(ZerosLike(inputs[1])), inst |-> inst]
    ELSE IF inputs[2].kind = "None" \/ inputs[3].kind = "None"
    THEN [ret |-> RetSingle(None), inst |-> inst, raised |-> "TypeError"]
    ELSE [ret |-> RetSingle(Standardize(inputs[1], inputs[2], inputs[3])), inst |-> inst]

\* ZScore.run(array, mean, std); dividing by None raises TypeError
ZScoreRun(inst, inputs) ==
    IF inputs[2].kind = "None"
    THEN [ret |-> RetSingle(ZerosLike(inputs[1])), inst |-> inst]
    ELSE IF inputs[3].kind = "None"
    THEN [ret |-> RetSingle(None), inst |-> inst, raised |-> "TypeError"]
    ELSE [ret |-> RetSingle(Standardize(inputs[1], inputs[2], inputs[3])), inst |-> inst]

\* ApplyMask.run: volume[self.mask]
ApplyMaskRun(inst, inputs) ==
    [ret |-> RetSingle(BoolIndex(inputs[1], inst.attrs.mask)), inst |-> inst]

\* ApplySecondaryMask.run: an input of more than one dimension is made a
\* column first; x[self.mask]
ApplySecondaryMaskRun(inst, inputs) ==
    LET x == IF Len(Shape(inputs[1])) > 1
             THEN Reshape(inputs[1], <<Size(inputs[1]), 1>>)
             ELSE inputs[1]
    IN  [ret |-> RetSingle(TakeRows(x, inst.attrs.mask)), inst |-> inst]

\* np.mean(array) and np.mean(array, axis) of a vector or a matrix; axis is
\* a tuple of distinct axes (0-based) of the array.  The element at C-order
\* position p of a matrix has the row (p - 1) \div columns and the column
\* (p - 1) % columns; the result keeps the axes that are not in axis.
Scalar(x) == NdArray(<<x>>, <<>>)
GlobalMean(array) == Scalar(NumMean(array.a))
RowsOf(array) == array.b[1]
ColsOf(array) == IF Len(array.b) > 1 THEN array.b[2] ELSE 1
MeanOver(array, axis) ==
    LET over == Range(axis)
        all == {d \in 0..(Len(array.b) - 1) : TRUE}
        rows == RowsOf(array)
        cols == ColsOf(array)
    IN  IF over = {} THEN array
        ELSE IF over = all THEN GlobalMean(array)
        ELSE IF over = {0}
        THEN NdArray([j \in 1..cols |->
                         NumMean([i \in 1..rows |-> array.a[(i - 1) * cols + j]])], <<cols>>)
        ELSE NdArray([i \in 1..rows |->
                         NumMean([j \in 1..cols |-> array.a[(i - 1) * cols + j]])], <<rows>>)

\* ArrayMean.run; an axis the array does not have makes np.mean raise
ArrayMeanRun(inst, inputs) ==
    IF inst.attrs.dimensions.kind = "None"
    THEN [ret |-> RetSingle(GlobalMean(inputs[1])), inst |-> inst]
    ELSE IF \E d \in Range(inst.attrs.dimensions.a) : d >= Len(inputs[1].b)
    THEN [ret |-> RetSingle(None), inst |-> inst, raised |-> "AxisError"]
    ELSE [ret |-> RetSingle(MeanOver(inputs[1], inst.attrs.dimensions.a)), inst |-> inst]

\* step['instance'].run(*inputs): the returned object and the instance after
Run(inst, inputs) ==
    CASE inst.class_name = "Debug" -> DebugRun(inst, inputs)
      [] inst.class_name = "SaveNifti" -> SaveNiftiRun(inst, inputs)
      [] inst.class_name = "NiftiToVolume" -> NiftiToVolumeRun(inst, inputs)
      [] inst.class_name = "VolumeToMosaic" -> VolumeToMosaicRun(inst, inputs)
      [] inst.class_name = "IncrementalMeanStd" -> IncrementalMeanStdRun(inst, inputs)
      [] inst.class_name = "ApplyMask" -> ApplyMaskRun(inst, inputs)
      [] inst.class_name = "ApplySecondaryMask" -> ApplySecondaryMaskRun(inst, inputs)
      [] inst.class_name = "ArrayMean" -> ArrayMeanRun(inst, inputs)
      [] inst.class_name = "RunningMeanStd" -> RunningMeanStdRun(inst, inputs)
      [] inst.class_name = "ZScore" -> ZScoreRun(inst, inputs)

(***************************************************************************)
(* Specs: the step dictionaries a pipeline is declared with                *)
(***************************************************************************)
StepDict(nm, cls, inp, hasOut, out, hasKw, kw) ==
    [hasName |-> TRUE, name |-> nm,
     hasClassName |-> TRUE, class_name |-> cls,
     hasInput |-> TRUE, input |-> inp,
     hasOutput |-> hasOut, output |-> out,
     hasKwargs |-> hasKw, kwargs |-> kw,
     hasInstance |-> FALSE, instance |-> 0]

\* one returned object, two output keys; no 'kwargs' entry
tNifti == StepDict("to_volume", "NiftiToVolume", <<"raw_image_nii">>,
                   TRUE, <<"x", "z">>, FALSE, EmptyDict)
\* one returned object written over its own input key
tMosaic == StepDict("mosaic", "VolumeToMosaic", <<"x">>,
                    TRUE, <<"x">>, TRUE, ("dim" :> "1"))
\* two returned objects, one output key; declares a name the globals hold too
tDebug == StepDict("debug", "Debug", <<"x">>,
                   TRUE, <<"y">>, TRUE, ("surface" :> "own"))
\* two returned objects, an empty output list
tDebugRaw == StepDict("debug_raw", "Debug", <<"raw_image_nii">>,
                      TRUE, <<>>, FALSE, EmptyDict)
\* two returned objects, three output keys; an empty 'kwargs' entry
tStats == StepDict("stats", "IncrementalMeanStd", <<"x">>,
                   TRUE, <<"m", "s", "z">>, TRUE, EmptyDict)
\* run returns nothing; no 'output' entry
tSave == StepDict("save", "SaveNifti", <<"raw_image_nii", "image_number">>,
                  FALSE, <<>>, TRUE, ("path_format" :> "vol_{}.nii"))
\* run returns nothing; one output key
tSaveOut == StepDict("save_out", "SaveNifti", <<"raw_image_nii", "image_number">>,
                     TRUE, <<"z">>, FALSE, EmptyDict)

\* needs surface and transform from the global parameters; no 'kwargs' entry
tMask == StepDict("mask", "ApplyMask", <<"x">>, TRUE, <<"y">>, FALSE, EmptyDict)
\* a class name load_class does not resolve
tUnknown == StepDict("mystery", "NoSuchStep", <<"x">>, TRUE, <<"y">>, FALSE, EmptyDict)
\* step dicts that lack the 'name', the 'class_name' or the 'input' entry
tNoName == [tDebug EXCEPT !.hasName = FALSE, !.name = ""]
tNoClass == [tDebug EXCEPT !.hasClassName = FALSE, !.class_name = ""]
tNoInput == [tDebugRaw EXCEPT !.hasInput = FALSE, !.input = <<>>]
\* a step whose kwargs hold a parameter named class_name
tLabelled == StepDict("labelled", "Debug", <<"x">>, TRUE, <<"y">>,
                      TRUE, ("class_name" :> "label"))

StepTemplates == {tNifti, tMosaic, tDebug, tDebugRaw, tStats, tSave, tSaveOut}
StaticChoices == {<<>>, <<tSave>>}

\* global_parameters dicts a Pipeline may be constructed with
GlobalChoices == <<("surface" :> "S1" @@ "transform" :> "T1"),
                   ("surface" :> "S2" @@ "recording_id" :> "rec2")>>


(***************************************************************************)
(* Pipeline.build                                                          *)
(***************************************************************************)
\* Mutant of MergeLoop: the loop also writes the merged values into
\* global_parameters
MergeLoopWritesGlobals(kwargs, global_parameters) ==
    [kwargs |-> DictUpdate(global_parameters, kwargs),
     global_parameters |-> DictUpdate(global_parameters, kwargs)]

\* The loop `for k, v in global_parameters.items(): kwargs[k] = kwargs.get(k, v)`:
\* the two dicts it touches, as they are after the loop.
MergeLoop(kwargs, global_parameters) ==
    [kwargs |-> [k \in (DOMAIN kwargs) \cup (DOMAIN global_parameters) |->
                    IF k \in DOMAIN kwargs THEN kwargs[k] ELSE global_parameters[k]],
     global_parameters |-> global_parameters]

\* step.get('kwargs', {}): the dict stored in the step, or a new empty one
GetKwargs(step) == IF step.hasKwargs THEN step.kwargs ELSE EmptyDict

\* pipeline_utils.load_class(class_name) resolves the names of the step
\* classes and fails for any other name.
KnownClasses == {"Debug", "SaveNifti", "NiftiToVolume", "VolumeToMosaic", "ApplyMask",
                 "ApplySecondaryMask", "ArrayMean",
                 "IncrementalMeanStd", "RunningMeanStd", "ZScore"}

\* The parameters a constructor has no default for: cls(*args, **kwargs)
\* raises TypeError when one is not among the keyword args (the specs here
\* declare no positional 'args').
RequiredArgs(cls) ==
    CASE cls = "ApplyMask" -> {"surface", "transform"}
      [] cls = "ApplySecondaryMask" -> {"surface", "transform", "mask_type_1", "mask_type_2"}
      [] cls = "ArrayMean" -> {"dimensions"}
      [] OTHER -> {}

\* What cls(**kwargs) raises, if it does: TypeError for a missing argument,
\* and in ArrayMean.__init__ for tuple(dimensions) of something that is not
\* iterable
ConstructorRaises(cls, kwargs) ==
    IF ~(RequiredArgs(cls) \subseteq DOMAIN kwargs) THEN "TypeError"
    ELSE IF cls = "ArrayMean" /\ kwargs["dimensions"].kind \notin {"list", "tuple"}
    THEN "TypeError"
    ELSE "none"

\* Where one iteration of a loop of build raises, if it does: step['name']
\* (before the merge), step['class_name'], load_class, or the constructor.
BuildStepRaises(step, kwargs) ==
    IF ~step.hasName THEN "KeyError: name"
    ELSE IF ~step.hasClassName THEN "KeyError: class_name"
    ELSE IF step.class_name \notin KnownClasses THEN "UnknownStepType"
    ELSE ConstructorRaises(step.class_name, kwargs)

\* One iteration of either loop of build on the step dict with id d, for the
\* Pipeline pid constructed with the global_parameters dict g.  h is the heap:
\* [stepDicts, globalMaps, instances, constructed, raised, maskDb].  The merge writes
\* into the dict that step.get returned: the step's own 'kwargs' dict when it
\* has one; it has run when class_name, load_class or the constructor raises.
BuildStep(h, d, g, pid, isStatic) ==
    LET step == h.stepDicts[d]
        m == MergeLoop(GetKwargs(step), h.globalMaps[g])
        err == BuildStepRaises(step, m.kwargs)
        newId == Len(h.instances) + 1
        step1 == [step EXCEPT !.kwargs = IF step.hasKwargs THEN m.kwargs ELSE step.kwargs]
        step2 == [step1 EXCEPT !.hasInstance = TRUE, !.instance = newId]
    IN  IF err = "KeyError: name" THEN [h EXCEPT !.raised = err]
        ELSE IF err # "none"
        THEN [h EXCEPT !.stepDicts[d] = step1,
                       !.globalMaps[g] = m.global_parameters,
                       !.raised = err]
        ELSE [stepDicts |-> [h.stepDicts EXCEPT ![d] = step2],
              globalMaps |-> [h.globalMaps EXCEPT ![g] = m.global_parameters],
              instances |-> Append(h.instances,
                                   NewInstance(step.class_name, m.kwargs, pid, h.maskDb)),
              constructed |-> Append(h.constructed,
                                     [pipeline |-> pid, step |-> d, static |-> isStatic,
                                      instance |-> newId,
                                      stepKwargs |-> GetKwargs(step),
                                      globals |-> h.globalMaps[g],
                                      kwargs |-> m.kwargs]),
              raised |-> "none",
              maskDb |-> h.maskDb]

\* for step in ...: an exception ends the loop (and build)
RECURSIVE BuildLoop(_, _, _, _, _, _)
BuildLoop(h, ids, i, g, pid, isStatic) ==
    IF i > Len(ids) \/ h.raised # "none" THEN h
    ELSE BuildLoop(BuildStep(h, ids[i], g, pid, isStatic), ids, i + 1, g, pid, isStatic)

(***************************************************************************)
(* Pipeline.register / PreprocessingStep.register                          *)
(***************************************************************************)
\* r.set(key + ':class_name', ...) then r.set(key + ':' + k, v) for every
\* parameter: a later write to the same key replaces the earlier one.
RegisterStep(st, pid, step_index, inst) ==
    LET st1 == DictSet(st, <<pid, step_index, "class_name">>, inst.class_name)
        params == [key \in {<<pid, step_index, k>> : k \in DOMAIN inst.parameters} |->
                      inst.parameters[key[3]]]
    IN  DictUpdate(st1, params)

\* The r.set calls of that registration, counted per key
CountStep(cnt, pid, step_index, inst) ==
    LET keys == {<<pid, step_index, k>> : k \in DOMAIN inst.parameters \cup {"class_name"}}
        before(key) == IF key \in DOMAIN cnt THEN cnt[key] ELSE 0
    IN  [key \in DOMAIN cnt \cup keys |->
            before(key) + (IF key = <<pid, step_index, "class_name">> THEN 1 ELSE 0)
                        + (IF key \in keys /\ key[3] \in DOMAIN inst.parameters THEN 1 ELSE 0)]

RECURSIVE CountLoop(_, _, _, _, _, _)
CountLoop(cnt, pid, ids, i, dicts, insts) ==
    IF i > Len(ids) THEN cnt
    ELSE CountLoop(CountStep(cnt, pid, i - 1, insts[dicts[ids[i]].instance]),
                   pid, ids, i + 1, dicts, insts)

RECURSIVE RegisterLoop(_, _, _, _, _, _)
RegisterLoop(st, pid, ids, i, dicts, insts) ==
    IF i > Len(ids) THEN st
    ELSE RegisterLoop(RegisterStep(st, pid, i - 1, insts[dicts[ids[i]].instance]),
                      pid, ids, i + 1, dicts, insts)

(***************************************************************************)
(* Pipeline.__init__(pipeline, global_parameters, static_pipeline)         *)
(***************************************************************************)
\* The objects __init__ reads and writes, as one record
Heap == [stepDicts |-> stepDicts, globalMaps |-> globalMaps, instances |-> instances,
         constructed |-> constructed, pipelines |-> pipelines, store |-> store,
         builds |-> builds, maskDb |-> maskDb, writes |-> writes]

\* self.build(pipeline, static_pipeline, global_parameters): both loops, for
\* the Pipeline pid
BuildBoth(h, static, steps, g, pid) ==
    LET h0 == [stepDicts |-> h.stepDicts, globalMaps |-> h.globalMaps,
               instances |-> h.instances, constructed |-> h.constructed,
               raised |-> "none", maskDb |-> h.maskDb]
    IN  BuildLoop(BuildLoop(h0, static, 1, g, pid, TRUE), steps, 1, g, pid, FALSE)

\* The runtime steps a build that raised had appended to self.pipeline
BuiltPrefix(h, h2, steps) ==
    SelectSeq(steps, LAMBDA d : h2.stepDicts[d].instance > Len(h.instances))

\* Mutant of Construct: __init__ swallows the exception of build and goes on
\* with the steps built so far
ConstructKeepsPartial(h, static, steps, g) ==
    LET pid == Len(h.pipelines) + 1
        h2 == BuildBoth(h, static, steps, g, pid)
        built == IF h2.raised = "none" THEN steps ELSE BuiltPrefix(h, h2, steps)
    IN  [stepDicts |-> h2.stepDicts,
         globalMaps |-> h2.globalMaps,
         instances |-> h2.instances,
         constructed |-> h2.constructed,
         pipelines |-> Append(h.pipelines,
                              [static_pipeline |-> static, pipeline |-> built,
                               global_parameters |-> g]),
         store |-> RegisterLoop(h.store, pid, built, 1, h2.stepDicts, h2.instances),
         builds |-> Append(h.builds, [global_parameters |-> g, raised |-> h2.raised,
                                      pipeline |-> pid]),
         maskDb |-> h.maskDb,
         writes |-> CountLoop(h.writes, pid, built, 1, h2.stepDicts, h2.instances)]

\* Pipeline(pipeline, global_parameters, static_pipeline), that is
\* self.build(...); self.register(): the heap after the call, made with the
\* lists static and steps (of step dict ids) and the global_parameters dict g.
\* An exception in build leaves __init__ before register: no Pipeline object
\* comes back (the instances built so far belong to Pipeline 0, no Pipeline).
Construct(h, static, steps, g) ==
    LET pid == Len(h.pipelines) + 1
        ok == BuildBoth(h, static, steps, g, pid).raised = "none"
        h2 == BuildBoth(h, static, steps, g, IF ok THEN pid ELSE 0)
    IN  [stepDicts |-> h2.stepDicts,
         globalMaps |-> h2.globalMaps,
         instances |-> h2.instances,
         constructed |-> h2.constructed,
         pipelines |-> IF ok
                       THEN Append(h.pipelines,
                                   [static_pipeline |-> static, pipeline |-> steps,
                                    global_parameters |-> g])
                       ELSE h.pipelines,
         store |-> IF ok
                   THEN RegisterLoop(h.store, pid, steps, 1, h2.stepDicts, h2.instances)
                   ELSE h.store,
         builds |-> Append(h.builds, [global_parameters |-> g, raised |-> h2.raised,
                                      pipeline |-> IF ok THEN pid ELSE 0]),
         maskDb |-> h.maskDb,
         writes |-> IF ok
                    THEN CountLoop(h.writes, pid, steps, 1, h2.stepDicts, h2.instances)
                    ELSE h.writes]

NoOutcome == [result |-> "none", step |-> 0]

Build(g) ==
    /\ pc = "idle"
    /\ Len(pipelines) < MaxPipelines
    /\ Len(builds) < MaxBuilds
    /\ LET h == Construct(Heap, specStatic, specPipeline, g)
       IN  /\ stepDicts' = h.stepDicts
           /\ globalMaps' = h.globalMaps
           /\ instances' = h.instances
           /\ constructed' = h.constructed
           /\ pipelines' = h.pipelines
           /\ store' = h.store
           /\ builds' = h.builds
           /\ writes' = h.writes
           /\ lastOutcome' = IF Len(h.pipelines) > Len(pipelines)
                             THEN Append(lastOutcome, NoOutcome)
                             ELSE lastOutcome
    /\ UNCHANGED <<specVars, sourceVars, streamVars, error, pc, curPipe, curStep, data_dict, frame0, instances0,
                   calls, outcome, prevOutcome, nframes>>

(***************************************************************************)
(* Pipeline.process(data_dict)                                             *)
(***************************************************************************)
Min(m, n) == IF m < n THEN m ELSE n

\* [data_dict[k] for k in step['input']] raises KeyError on an absent key of
\* the frame, and when the step dict has no 'input' entry
MissingKey(step, dd) ==
    \/ ~step.hasInput
    \/ \E i \in 1..Len(step.input) : step.input[i] \notin DOMAIN dd
Inputs(step, dd) == [i \in 1..Len(step.input) |-> dd[step.input[i]]]

\* Mutant of Normalize: a run that returned nothing yields no value
NormalizeNoneEmpty(ret) ==
    IF ret.isTuple THEN ret.items ELSE IF ret.value = None THEN <<>> ELSE <<ret.value>>

\* if not isinstance(outp, (list, tuple)): outp = [outp]
Normalize(ret) == IF ret.isTuple THEN ret.items ELSE <<ret.value>>

\* step.get('output', [])
GetOutput(step) == IF step.hasOutput THEN step.output ELSE <<>>

\* Mutant of ZipDict: zip_longest, surplus keys bound to None
ZipDictPadded(keys, outp) ==
    LET last(k) == CHOOSE i \in 1..Len(keys) :
                       keys[i] = k /\ \A j \in 1..Len(keys) : keys[j] = k => j <= i
    IN  [k \in Range(keys) |-> IF last(k) <= Len(outp) THEN outp[last(k)] ELSE None]

\* dict(zip(keys, outp)): zip stops at the shorter of the two; a key that
\* occurs twice keeps the value paired with its last occurrence.
ZipDict(keys, outp) ==
    LET n == Min(Len(keys), Len(outp))
        last(k) == CHOOSE i \in 1..n : keys[i] = k /\ \A j \in 1..n : keys[j] = k => j <= i
    IN  [k \in {keys[i] : i \in 1..n} |-> outp[last(k)]]

\* Mutants of Merge: keys already in the frame keep their value
\* (setdefault); the frame is replaced by the step's outputs
MergeKeepExisting(dd, d) == DictUpdate(d, dd)
MergeReplace(dd, d) == d

\* data_dict.update(d)
Merge(dd, d) == DictUpdate(dd, d)

\* The frames a caller hands to process as its n-th frame (volume n + 1):
\* the preprocess loop builds {image_number, raw_image_nii}; other callers
\* pass any dict.
Frames(n) ==
    {("image_number" :> IntVal(n) @@ "raw_image_nii" :> Nii(n + 1)),
     ("image_number" :> IntVal(n) @@ "x" :> Arr(n + 1, 0)),
     ("image_number" :> IntVal(n) @@ "raw_image_nii" :> Nii(n + 1) @@ "x" :> Arr(n + 1, 0)),
     ("image_number" :> IntVal(n)),
     ("raw_image_nii" :> Nii(n + 1))}

\* The frames fed to two Pipelines built from one spec
SharedFrames(n) ==
    {("image_number" :> IntVal(n) @@ "raw_image_nii" :> Nii(n + 1)),
     ("image_number" :> IntVal(n) @@ "x" :> Arr(n + 1, 0))}

\* A volume the scanner delivers: the voxel at C-order position p holds
\* (c * p) % 3
Volume(c) == NdArray([p \in 1..GridSize |-> Int2Num((c * p) % 3)], GridShape)

\* The frames fed to the Pipelines of SpecBuild
BuildFrames(n) ==
    {("image_number" :> IntVal(n) @@ "raw_image_nii" :> Nii(n + 1) @@ "x" :> Volume(n + 1))}

\* Mutant of CurSteps: the loop of process goes over the static steps too
CurStepsWithStatic == pipelines[curPipe].static_pipeline \o pipelines[curPipe].pipeline

CurSteps == pipelines[curPipe].pipeline
CurStepDict == stepDicts[CurSteps[curStep]]

\* An exception as its handler sees it: the type and the args it carries.
\* d[k] on a dict without the key k raises KeyError(k).
NoError == [type |-> "none", args |-> <<>>]
KeyError(k) == [type |-> "KeyError", args |-> <<Val("str", k, 0)>>]

\* The key whose lookup fails in [data_dict[k] for k in step['input']]
MissingKeyName(step, dd) ==
    IF ~step.hasInput THEN "input"
    ELSE step.input[CHOOSE i \in 1..Len(step.input) :
                        /\ step.input[i] \notin DOMAIN dd
                        /\ \A j \in 1..(i - 1) : step.input[j] \in DOMAIN dd]

\* Entry of process: struct.pack('i', data_dict['image_number']) raises KeyError
\* when the frame has no image_number, before any step is looked at.
ProcessCall(p, frame, max) ==
    /\ pc = "idle"
    /\ p \in 1..Len(pipelines)
    /\ nframes < max
    /\ nframes' = nframes + 1
    /\ curPipe' = p
    /\ data_dict' = frame
    /\ frame0' = frame
    /\ instances0' = instances
    /\ calls' = <<>>
    /\ prevOutcome' = lastOutcome[p]
    /\ IF "image_number" \in DOMAIN frame
       THEN /\ pc' = "running"
            /\ curStep' = 1
            /\ outcome' = "none"
            /\ error' = NoError
            /\ UNCHANGED lastOutcome
       ELSE /\ pc' = "idle"
            /\ curStep' = 0
            /\ outcome' = "KeyError"
            /\ error' = KeyError("image_number")
            /\ lastOutcome' = [lastOutcome EXCEPT ![p] = [result |-> "KeyError", step |-> 0]]
    /\ UNCHANGED <<buildVars, specVars, sourceVars, instances>>

ProcessStart(p, frame) == ProcessCall(p, frame, MaxFrames) /\ UNCHANGED streamVars

\* Mutant of ProcessStepMissing: the KeyError is swallowed and the step skipped
ProcessStepSkipMissing ==
    /\ pc = "running"
    /\ curStep <= Len(CurSteps)
    /\ MissingKey(CurStepDict, data_dict)
    /\ curStep' = curStep + 1
    /\ UNCHANGED <<buildVars, specVars, sourceVars, streamVars, error, instances, pc, curPipe, data_dict, frame0,
                   instances0, calls, outcome, prevOutcome, lastOutcome, nframes>>

\* One iteration of the loop whose list comprehension raises KeyError
ProcessStepMissing ==
    /\ pc = "running"
    /\ curStep <= Len(CurSteps)
    /\ MissingKey(CurStepDict, data_dict)
    /\ pc' = "idle"
    /\ outcome' = "KeyError"
    /\ lastOutcome' = [lastOutcome EXCEPT ![curPipe] = [result |-> "KeyError", step |-> curStep]]
    /\ error' = KeyError(MissingKeyName(CurStepDict, data_dict))
    /\ UNCHANGED <<buildVars, specVars, sourceVars, streamVars, instances, curPipe, curStep, data_dict,
                   frame0, instances0, calls, prevOutcome, nframes>>

\* One full iteration of the loop: inputs, run, normalise, zip, update
ProcessStepRun ==
    /\ pc = "running"
    /\ curStep <= Len(CurSteps)
    /\ ~MissingKey(CurStepDict, data_dict)
    /\ LET step == CurStepDict
           inputs == Inputs(step, data_dict)
           r == Run(instances[step.instance], inputs)
           outp == Normalize(r.ret)
           d == ZipDict(GetOutput(step), outp)
       IN  /\ instances' = [instances EXCEPT ![step.instance] = r.inst]
           /\ data_dict' = Merge(data_dict, d)
           /\ calls' = Append(calls, [step |-> curStep, instance |-> step.instance,
                                      inputs |-> inputs, ret |-> r.ret, d |-> d,
                                      before |-> data_dict])
    /\ curStep' = curStep + 1
    /\ UNCHANGED <<buildVars, specVars, sourceVars, streamVars, error, pc, curPipe, frame0,
                   instances0, outcome,
                   prevOutcome, lastOutcome, nframes>>

\* return data_dict
ProcessReturn ==
    /\ pc = "running"
    /\ curStep > Len(CurSteps)
    /\ pc' = "idle"
    /\ outcome' = "returned"
    /\ lastOutcome' = [lastOutcome EXCEPT ![curPipe] = [result |-> "returned", step |-> curStep]]
    /\ UNCHANGED <<buildVars, specVars, sourceVars, streamVars, error, instances, curPipe, curStep, data_dict,
                   frame0, instances0, calls, prevOutcome, nframes>>

(***************************************************************************)
(* Specifications                                                          *)
(***************************************************************************)
\* The heap of step dicts for a spec: the `pipeline` dicts, then the
\* `static_pipeline` dicts, each list entry a dict object of its own.
SpecHeap(steps, static) ==
    [stepDicts |-> steps \o static, globalMaps |-> GlobalChoices, instances |-> <<>>,
     constructed |-> <<>>, pipelines |-> <<>>, store |-> EmptyDict, builds |-> <<>>,
     maskDb |-> CortexMasks, writes |-> EmptyDict]

\* The pycortex database and the volumes the scanner will deliver
\* Nothing is subscribed to a channel, nothing is on the 'timestamp' list
NoStream == channel = <<>> /\ nread = 0 /\ loop = "listening"
NoCollector == volumeMsgs = <<>> /\ cread = 0 /\ timestamps = <<>> /\ collector = "listening"
\* Scanner.__init__: active, an empty sync_queue, no coroutine started
NoScanner ==
    /\ scanner = [active |-> TRUE, sync_queue |-> <<>>]
    /\ collectTask = [pc |-> "new", wake |-> 0]
    /\ consumeTask = [pc |-> "new", recv_time |-> 0]
    /\ sent = <<>> /\ pulses = <<>> /\ now = 0
InitFeed(db, volumes) ==
    maskDb = db /\ scans = volumes /\ NoStream /\ NoCollector /\ NoScanner

InitWith(steps, static, h) ==
    /\ declared = steps \o static
    /\ specPipeline = [i \in 1..Len(steps) |-> i]
    /\ specStatic = [i \in 1..Len(static) |-> Len(steps) + i]
    /\ globals0 = GlobalChoices
    /\ stepDicts = h.stepDicts
    /\ globalMaps = h.globalMaps
    /\ instances = h.instances
    /\ constructed = h.constructed
    /\ pipelines = h.pipelines
    /\ store = h.store
    /\ pc = "idle"
    /\ curPipe = 0
    /\ curStep = 0
    /\ data_dict = EmptyDict
    /\ frame0 = EmptyDict
    /\ instances0 = <<>>
    /\ calls = <<>>
    /\ outcome = "none"
    /\ prevOutcome = NoOutcome
    /\ lastOutcome = [i \in 1..Len(h.pipelines) |-> NoOutcome]
    /\ nframes = 0
    /\ builds = h.builds
    /\ writes = h.writes
    /\ error = NoError
    /\ unit = NoUnit
    /\ log = <<>>

\* Spec: one Pipeline, constructed from any spec of up to MaxSteps steps,
\* processing frames.  Init is the state after its construction.
Init ==
    \E n \in 0..MaxSteps : \E steps \in [1..n -> StepTemplates] :
        LET static == <<tSave>>
            ids == [i \in 1..n |-> i]
        IN  /\ InitFeed(CortexMasks, <<>>)
            /\ InitWith(steps, static,
                        Construct(SpecHeap(steps, static), <<n + 1>>, ids, 1))

Next ==
    \/ \E frame \in Frames(nframes) : ProcessStart(1, frame)
    \/ ProcessStepMissing
    \/ ProcessStepRun
    \/ ProcessReturn

Spec == Init /\ [][Next]_vars

\* SpecShared: Pipelines constructed one after the other from the same spec
\* (the same list of step dicts), with either global_parameters dict, and
\* processing frames in between.
SharedTemplates == {tNifti, tDebug, tStats}

InitShared ==
    \E n \in 1..MaxSharedSteps : \E steps \in [1..n -> SharedTemplates] :
        \E static \in StaticChoices :
            InitFeed(CortexMasks, <<>>) /\ InitWith(steps, static, SpecHeap(steps, static))

NextShared ==
    \/ \E g \in DOMAIN globalMaps : Build(g)
    \/ \E p \in 1..MaxPipelines : \E frame \in SharedFrames(nframes) : ProcessStart(p, frame)
    \/ ProcessStepMissing
    \/ ProcessStepRun
    \/ ProcessReturn

SpecShared == InitShared /\ [][NextShared]_vars

\* SpecBuild: Pipeline(...) called on any spec, well-formed or not, of up to
\* MaxSharedSteps steps, with either global_parameters dict; the Pipelines
\* that come back process frames.
BuildTemplates == {tDebug, tMask, tUnknown, tNoName, tNoClass, tNoInput, tLabelled}
BuildStaticChoices == {<<>>, <<tMask>>}

InitBuild ==
    \E n \in 1..MaxSharedSteps : \E steps \in [1..n -> BuildTemplates] :
        \E static \in BuildStaticChoices :
            InitFeed(CortexMasks, <<>>) /\ InitWith(steps, static, SpecHeap(steps, static))

NextBuild ==
    \/ \E g \in DOMAIN globalMaps : Build(g)
    \/ \E p \in 1..MaxPipelines : \E frame \in BuildFrames(nframes) : ProcessStart(p, frame)
    \/ ProcessStepMissing
    \/ ProcessStepRun
    \/ ProcessReturn

SpecBuild == InitBuild /\ [][NextBuild]_vars


(***************************************************************************)
(* A step instance driven directly: the caller constructs it and calls     *)
(* run and reset on it, as process and the operator of a session do.       *)
(***************************************************************************)
pipeVars == <<buildVars, specVars, streamVars, collectVars, scanVars, error, instances, pc, curPipe, curStep,
              data_dict, frame0, instances0, calls, outcome, prevOutcome, lastOutcome, nframes>>

Vec(x, y) == NdArray(<<Int2Num(x), Int2Num(y)>>, <<2>>)

\* The arrays handed to IncrementalMeanStd.run (one of them a column, shape
\* (2, 1)) and to RunningMeanStd.run
StatsSamples == {Vec(0, 1), Vec(2, 1), NdArray(<<Int2Num(1), Int2Num(4)>>, <<2, 1>>)}
WindowSamples == {Vec(0, 1), Vec(2, 4)}

\* The arguments handed to ZScore.run: arrays of shape (2,) and (1, 2), and
\* (mean, std) pairs as IncrementalMeanStd returns them, or with one None
ZArrays == {Vec(5, 1), NdArray(<<Int2Num(3), Int2Num(3)>>, <<1, 2>>)}
\* The arrays handed to ArrayMean.run, a vector and a matrix, and the values
\* of its `dimensions` argument: None, or a list of axes
MeanArrays == {Vec(0, 1),
               NdArray(<<Int2Num(1), Int2Num(2), Int2Num(3), Int2Num(6)>>, <<2, 2>>)}
MeanDimensions == {None, Val("list", <<>>, 0), Val("list", <<0>>, 0), Val("list", <<1>>, 0),
                   Val("list", <<0, 1>>, 0)}

ZStats == {<<None, None>>,
           <<None, Vec(2, 1)>>,
           <<Vec(3, 1), Vec(2, 1)>>,
           <<NdArray(<<Num(7, 2, 1), Int2Num(3)>>, <<2>>), NdArray(<<Num(1, 3, 6), Zero>>, <<2>>)>>,
           <<Vec(3, 1), None>>}

\* cls(**kwargs) by the caller
UnitNew(cls, kwargs) ==
    /\ unit = NoUnit
    /\ IF ConstructorRaises(cls, kwargs) = "none"
       THEN /\ unit' = NewInstance(cls, kwargs, 0, maskDb)
            /\ log' = <<>>
       ELSE /\ log = <<>>
            /\ unit' = unit
            /\ log' = <<[op |-> "new", inputs |-> <<cls, kwargs>>, ret |-> RetSingle(None),
                         raised |-> ConstructorRaises(cls, kwargs),
                         before |-> unit, after |-> unit]>>
    /\ UNCHANGED pipeVars

\* unit.run(*inputs), logged with the instance before and after
UnitRun(inputs, max) ==
    /\ Len(log) < max
    /\ LET r == Run(unit, inputs)
       IN  /\ unit' = r.inst
           /\ log' = Append(log, [op |-> "run", inputs |-> inputs, ret |-> r.ret,
                                  raised |-> IF "raised" \in DOMAIN r THEN r.raised ELSE "none",
                                  before |-> unit, after |-> r.inst])
    /\ UNCHANGED pipeVars

UnitRunStats(array) ==
    unit.class_name = "IncrementalMeanStd" /\ UnitRun(<<array>>, MaxCalls)
UnitRunWindow(inp, image_number) ==
    unit.class_name = "RunningMeanStd" /\ UnitRun(<<inp, IntVal(image_number)>>, MaxWindowCalls)
UnitRunZ(array, stats) ==
    unit.class_name = "ZScore" /\ UnitRun(<<array, stats[1], stats[2]>>, MaxZCalls)
UnitRunMean(array) ==
    unit.class_name = "ArrayMean" /\ UnitRun(<<array>>, MaxZCalls)

\* unit.reset(): del self.data raises AttributeError when there is no data
UnitReset ==
    /\ unit.class_name = "IncrementalMeanStd"
    /\ Len(log) < MaxCalls
    /\ unit' = IF unit.hasData THEN IncrementalMeanStdReset(unit) ELSE unit
    /\ log' = Append(log, [op |-> "reset", inputs |-> <<>>, ret |-> RetSingle(None),
                           raised |-> IF unit.hasData THEN "none" ELSE "AttributeError",
                           before |-> unit,
                           after |-> IF unit.hasData THEN IncrementalMeanStdReset(unit)
                                     ELSE unit])
    /\ UNCHANGED pipeVars

InitUnit == InitFeed(CortexMasks, <<>>) /\ InitWith(<<>>, <<>>, SpecHeap(<<>>, <<>>))

NextUnit ==
    \/ UnitNew("IncrementalMeanStd", EmptyDict)
    \/ UnitNew("ZScore", EmptyDict)
    \/ \E n \in 1..MaxWindow : \E k \in 0..MaxSkip :
           UnitNew("RunningMeanStd", ("n" :> n @@ "n_skip" :> k))
    \/ \E array \in StatsSamples : UnitRunStats(array)
    \/ UnitReset
    \/ \E inp \in WindowSamples : \E i \in 0..MaxImage : UnitRunWindow(inp, i)
    \/ \E array \in ZArrays : \E stats \in ZStats : UnitRunZ(array, stats)
    \/ \E dimensions \in MeanDimensions : UnitNew("ArrayMean", ("dimensions" :> dimensions))
    \/ \E array \in MeanArrays : UnitRunMean(array)

SpecUnit == InitUnit /\ [][NextUnit]_vars

(***************************************************************************)
(* The z-scoring pipeline: ApplyMask -> IncrementalMeanStd -> ZScore, fed   *)
(* the volumes of a scan one frame at a time.                              *)
(***************************************************************************)
tGmMask == StepDict("gm_mask", "ApplyMask", <<"volume">>, TRUE, <<"gm">>,
                    TRUE, ("mask_type" :> "thick"))
tGmMaskDefault == StepDict("gm_mask", "ApplyMask", <<"volume">>, TRUE, <<"gm">>,
                           FALSE, EmptyDict)
tGmStats == StepDict("gm_stats", "IncrementalMeanStd", <<"gm">>, TRUE, <<"mean", "std">>,
                     FALSE, EmptyDict)
tGmZScore == StepDict("gm_zscore", "ZScore", <<"gm", "mean", "std">>, TRUE, <<"z">>,
                      FALSE, EmptyDict)
ZMaskSteps == {tGmMask, tGmMaskDefault}

\* What the scanner delivers for one frame: a volume, or nothing but the
\* image number
ScanVolumes == {Volume(c) : c \in 0..MaxLevel} \cup {None}

\* The frame of the n-th delivery
ScanFrame(n) ==
    IF scans[n].kind = "None"
    THEN ("image_number" :> IntVal(n - 1))
    ELSE ("image_number" :> IntVal(n - 1) @@ "volume" :> scans[n])

InitZ ==
    \E mask \in ZMaskSteps : \E volumes \in [1..MaxVolumes -> ScanVolumes] :
        LET steps == <<mask, tGmStats, tGmZScore>>
        IN  /\ InitFeed(CortexMasks, volumes)
            /\ InitWith(steps, <<>>, Construct(SpecHeap(steps, <<>>), <<>>, <<1, 2, 3>>, 1))

NextScan ==
    \/ ProcessCall(1, ScanFrame(nframes + 1), Len(scans)) /\ UNCHANGED streamVars
    \/ ProcessStepMissing
    \/ ProcessStepRun
    \/ ProcessReturn

SpecZ == InitZ /\ [][NextScan]_vars

(***************************************************************************)
(* Nested masks: a primary mask, the secondary mask applied to its output,  *)
(* and the secondary mask applied to the volume directly.                  *)
(***************************************************************************)
tPrimary == StepDict("primary", "ApplyMask", <<"volume">>, TRUE, <<"gm">>,
                     TRUE, ("mask_type" :> "primary"))
tSecondary == StepDict("secondary", "ApplySecondaryMask", <<"gm">>, TRUE, <<"roi_of_gm">>,
                       TRUE, ("mask_type_1" :> "primary" @@ "mask_type_2" :> "roi"))
tDirect == StepDict("direct", "ApplyMask", <<"volume">>, TRUE, <<"roi">>,
                    TRUE, ("mask_type" :> "roi"))

\* A volume whose voxels all differ: the voxel at C-order position p holds p
Arange == NdArray([p \in 1..GridSize |-> Int2Num(p)], GridShape)

\* The masks a subject's database can hold
MaskSets == SUBSET {p \in 1..GridSize : p <= MaxMaskSpan}
MaskDb(m1, m2) ==
    ("primary" :> MaskOf(m1) @@ "roi" :> MaskOf(m2) @@ "None" :> MaskOf(1..GridSize))

InitMask ==
    \E m1 \in MaskSets : \E m2 \in MaskSets :
        \E volumes \in [1..1 -> ScanVolumes \cup {Arange}] :
            LET steps == <<tPrimary, tSecondary, tDirect>>
                h == [SpecHeap(steps, <<>>) EXCEPT !.maskDb = MaskDb(m1, m2)]
            IN  /\ InitFeed(MaskDb(m1, m2), volumes)
                /\ InitWith(steps, <<>>, Construct(h, <<>>, <<1, 2, 3>>, 1))

SpecMask == InitMask /\ [][NextScan]_vars

(***************************************************************************)
(* The receive loop of preprocess: the messages of the 'timestamped_volume' *)
(* subscription are taken one at a time and handed to process.             *)
(***************************************************************************)
\* A pubsub message as listen() yields it, and the confirmation that
\* subscribe() puts first on every subscription
Message(type, data) == [type |-> type, data |-> data]
SubscribeConfirmation == Message("subscribe", IntVal(1))

\* Python objects that travel pickled: a dict (key -> value) or a list
PyDict(items) == [py |-> "dict", items |-> items]
PyList(items) == [py |-> "list", items |-> items]
\* pickle.dumps(obj) is a byte string that pickle.loads turns into an equal
\* object
Pickle(obj) == Val("bytes", obj, 0)
Unpickle(data) == data.a

\* What a publisher that follows the subscriber's format puts on the
\* channel: a dict with the image number and the volume, or one without
\* the volume
TimestampedVolumes ==
    {PyDict("image_number" :> IntVal(n) @@ "volume" :> Nii(v)) : n \in 0..1, v \in 1..2}
        \cup {PyDict("image_number" :> IntVal(0))}

tToVolume == StepDict("to_volume", "NiftiToVolume", <<"raw_image_nii">>, TRUE, <<"volume">>,
                      FALSE, EmptyDict)
tVolumeStats == StepDict("volume_stats", "IncrementalMeanStd", <<"volume">>, TRUE,
                         <<"mean", "std">>, FALSE, EmptyDict)

\* The variables a process call reads or writes
processVars == <<buildVars, specVars, sourceVars, error, instances, pc, curPipe, curStep, data_dict,
                 frame0, instances0, calls, outcome, prevOutcome, lastOutcome, nframes>>

\* Mutant of NextMessage: listen() yields the newest message
NewestMessage == channel[Len(channel)]

\* for message in volume_subscription.listen(): the messages come in the
\* order they were published
NextMessage == channel[nread + 1]

\* redis_client.publish('timestamped_volume', pickle.dumps(obj)) by any
\* publisher, at any time
Publish(obj) ==
    /\ Len(channel) <= MaxMessages
    /\ channel' = Append(channel, Message("message", Pickle(obj)))
    /\ UNCHANGED <<processVars, nread, loop>>

\* One iteration of the loop of preprocess.  An exception (of the loop's own
\* statements, or one that process let through) leaves preprocess: there is
\* no try statement around the loop or inside it.
Receive ==
    /\ pc = "idle"
    /\ loop = "listening"
    /\ outcome # "KeyError"
    /\ nread < Len(channel)
    /\ nread' = nread + 1
    /\ UNCHANGED channel
    /\ LET message == NextMessage
       IN  IF message.type # "message" \/ (message.data.kind = "int" /\ message.data.a = 1)
           THEN UNCHANGED <<processVars, loop>>
           ELSE LET timestamped_volume == Unpickle(message.data)
                IN  IF timestamped_volume.py # "dict"
                    THEN loop' = "TypeError" /\ UNCHANGED processVars
                    ELSE IF {"image_number", "volume"} \subseteq DOMAIN timestamped_volume.items
                    THEN /\ UNCHANGED loop
                         /\ ProcessCall(1,
                                ("image_number" :> timestamped_volume.items["image_number"]
                                 @@ "raw_image_nii" :> timestamped_volume.items["volume"]),
                                Len(channel))
                    ELSE loop' = "KeyError" /\ UNCHANGED processVars

\* preprocess after Pipeline(**pipeline_config) and subscribe
InitLoop ==
    LET steps == <<tToVolume, tVolumeStats>>
    IN  /\ maskDb = CortexMasks /\ scans = <<>> /\ NoCollector /\ NoScanner
        /\ channel = <<SubscribeConfirmation>> /\ nread = 0 /\ loop = "listening"
        /\ InitWith(steps, <<>>, Construct(SpecHeap(steps, <<>>), <<>>, <<1, 2>>, 1))

NextLoop ==
    \/ \E obj \in TimestampedVolumes : Publish(obj)
    \/ Receive
    \/ ProcessStepRun
    \/ ProcessReturn

SpecLoop == InitLoop /\ [][NextLoop]_vars

(***************************************************************************)
(* The collector: collect takes the messages of the 'volume' subscription,  *)
(* pops a timestamp for each volume and publishes the timestamped volume   *)
(* for preprocess.                                                         *)
(***************************************************************************)
\* struct.pack('d', t) and struct.unpack('d', b)[0]
Pack(t) == Val("bytes8", t, 0)
Unpack(b) == b.a
\* dicom_to_nifti(path): the Nifti image of the volume file at path
DicomToNifti(path) == Nii(path)

\* The timestamps pushed so far: those on the list and those popped, one for
\* each timestamped volume published
Pushed == Len(timestamps) + (Len(channel) - 1)

\* The scanner writes a volume file and its path is published on 'volume'
VolumeArrives(path) ==
    /\ Len(volumeMsgs) <= MaxMessages
    /\ volumeMsgs' = Append(volumeMsgs, Message("message", Val("bytes", path, 0)))
    /\ UNCHANGED <<buildVars, specVars, unitVars, scanVars, streamVars, error, instances, pc, curPipe,
                   curStep, data_dict, frame0, instances0, calls, outcome, prevOutcome,
                   lastOutcome, nframes, cread, timestamps, collector>>

\* The pulse recorder pushes the time of a pulse on the left end of the list
PushTimestamp ==
    /\ Pushed < MaxPulses
    /\ timestamps' = <<Pack(Pushed + 1)>> \o timestamps
    /\ UNCHANGED <<buildVars, specVars, unitVars, scanVars, streamVars, error, instances, pc, curPipe,
                   curStep, data_dict, frame0, instances0, calls, outcome, prevOutcome,
                   lastOutcome, nframes, volumeMsgs, cread, collector>>

\* for image_number, message in enumerate(volume_subscriber.listen()): the
\* index of the message about to be yielded, counted from 0 over every
\* message of the subscription
EnumerateIndex == cread

\* One iteration of the loop of collect.  redis_client.rpop returns None when
\* the list is empty, and struct.unpack('d', None) raises TypeError; nothing
\* catches it.
Collect ==
    /\ collector = "listening"
    /\ cread < Len(volumeMsgs)
    /\ cread' = cread + 1
    /\ UNCHANGED volumeMsgs
    /\ LET image_number == EnumerateIndex
           message == volumeMsgs[cread + 1]
       IN  IF message.type # "message"
           THEN UNCHANGED <<timestamps, collector, channel>>
           ELSE IF timestamps = <<>>
           THEN collector' = "TypeError" /\ UNCHANGED <<timestamps, channel>>
           ELSE LET timestamp == Unpack(timestamps[Len(timestamps)])
                    nii == DicomToNifti(message.data.a)
                IN  /\ timestamps' = SubSeq(timestamps, 1, Len(timestamps) - 1)
                    /\ channel' = Append(channel,
                           Message("message",
                                   Pickle(PyList(<<IntVal(image_number),
                                                   Val("float", timestamp, 0), nii>>))))
                    /\ UNCHANGED collector
    /\ UNCHANGED <<buildVars, specVars, unitVars, scanVars, error, instances, pc, curPipe, curStep,
                   data_dict, frame0, instances0, calls, outcome, prevOutcome, lastOutcome,
                   nframes, nread, loop>>

\* collect and preprocess, each after its subscribe
InitCollect ==
    LET steps == <<tToVolume, tVolumeStats>>
    IN  /\ maskDb = CortexMasks /\ scans = <<>> /\ NoScanner
        /\ volumeMsgs = <<SubscribeConfirmation>> /\ cread = 0
        /\ timestamps = <<>> /\ collector = "listening"
        /\ channel = <<SubscribeConfirmation>> /\ nread = 0 /\ loop = "listening"
        /\ InitWith(steps, <<>>, Construct(SpecHeap(steps, <<>>), <<>>, <<1, 2>>, 1))

NextCollect ==
    \/ \E path \in 1..MaxPaths : VolumeArrives(path)
    \/ PushTimestamp
    \/ Collect
    \/ Receive

SpecCollect == InitCollect /\ [][NextCollect]_vars

(***************************************************************************)
(* Scanner (scan.py): run gathers two coroutines on one event loop, the    *)
(* pulse collector and consume_sync_queue.  A coroutine runs from one      *)
(* suspension point to the next without interleaving: _simulate suspends   *)
(* in sleep, consume_sync_queue in get while the queue is empty and in     *)
(* send until the socket has taken the message.  put on the unbounded      *)
(* queue never suspends.                                                   *)
(***************************************************************************)
scanRest == <<buildVars, specVars, unitVars, collectVars, streamVars, error, instances, pc,
              curPipe, curStep, data_dict, frame0, instances0, calls, outcome, prevOutcome,
              lastOutcome, nframes>>

\* Seconds between two simulated pulses: asyncio.sleep(2)
SimulatedTR == 2

\* Scanner.run: both coroutines are scheduled
ScannerRun ==
    /\ collectTask.pc = "new" /\ consumeTask.pc = "new"
    /\ collectTask' = [collectTask EXCEPT !.pc = "loop"]
    /\ consumeTask' = [consumeTask EXCEPT !.pc = "loop"]
    /\ UNCHANGED <<scanner, sent, pulses, now, scanRest>>

\* The clock advances
Tick ==
    /\ now < MaxClock
    /\ now' = now + 1
    /\ UNCHANGED <<scanner, collectTask, consumeTask, sent, pulses, scanRest>>

\* _simulate, from the test of the while loop to its suspension in sleep:
\* a pulse is detected now and its time is put on the queue
SimulatePulse ==
    /\ collectTask.pc = "loop"
    /\ IF scanner.active
       THEN /\ scanner' = [scanner EXCEPT !.sync_queue = Append(@, now)]
            /\ pulses' = Append(pulses, now)
            /\ collectTask' = [pc |-> "sleep", wake |-> now + SimulatedTR]
       ELSE /\ collectTask' = [collectTask EXCEPT !.pc = "done"]
            /\ UNCHANGED <<scanner, pulses>>
    /\ UNCHANGED <<consumeTask, sent, now, scanRest>>

\* _simulate resumes when its sleep is over
SimulateWake ==
    /\ collectTask.pc = "sleep" /\ now >= collectTask.wake
    /\ collectTask' = [collectTask EXCEPT !.pc = "loop"]
    /\ UNCHANGED <<scanner, consumeTask, sent, pulses, now, scanRest>>

\* Mutant of ConsumeGet: the newest entry of the queue is taken, not the oldest
ConsumeGetNewest ==
    /\ consumeTask.pc = "loop"
    /\ scanner.active => scanner.sync_queue # <<>>
    /\ IF scanner.active
       THEN /\ consumeTask' = [pc |-> "send",
                               recv_time |-> scanner.sync_queue[Len(scanner.sync_queue)]]
            /\ scanner' = [scanner EXCEPT !.sync_queue = SubSeq(@, 1, Len(@) - 1)]
       ELSE /\ consumeTask' = [consumeTask EXCEPT !.pc = "done"]
            /\ UNCHANGED scanner
    /\ UNCHANGED <<collectTask, sent, pulses, now, scanRest>>

\* consume_sync_queue, from the test of the while loop to the return of
\* sync_queue.get(): suspended while the queue is empty, it takes the oldest
\* entry
ConsumeGet ==
    /\ consumeTask.pc = "loop"
    /\ scanner.active => scanner.sync_queue # <<>>
    /\ IF scanner.active
       THEN /\ consumeTask' = [pc |-> "send", recv_time |-> Head(scanner.sync_queue)]
            /\ scanner' = [scanner EXCEPT !.sync_queue = Tail(@)]
       ELSE /\ consumeTask' = [consumeTask EXCEPT !.pc = "done"]
            /\ UNCHANGED scanner
    /\ UNCHANGED <<collectTask, sent, pulses, now, scanRest>>

\* socket.send(struct.pack('d', recv_time)) completes
ConsumeSend ==
    /\ consumeTask.pc = "send"
    /\ sent' = Append(sent, Pack(consumeTask.recv_time))
    /\ consumeTask' = [consumeTask EXCEPT !.pc = "loop"]
    /\ UNCHANGED <<scanner, collectTask, pulses, now, scanRest>>

InitScanner == InitFeed(CortexMasks, <<>>) /\ InitWith(<<>>, <<>>, SpecHeap(<<>>, <<>>))

NextScanner ==
    \/ ScannerRun
    \/ Tick
    \/ SimulatePulse
    \/ SimulateWake
    \/ ConsumeGet
    \/ ConsumeSend

SpecScanner == InitScanner /\ [][NextScanner]_vars

\* The event loop resumes a coroutine that can go on: consume_sync_queue
\* once the queue holds an entry, and once the socket can take its message
\* (a peer is connected to the PUSH socket)
SpecScannerFair == SpecScanner /\ WF_vars(ConsumeGet) /\ WF_vars(ConsumeSend)

(***************************************************************************)
(* Properties of Pipeline.process                                          *)
(***************************************************************************)
\* The step dict of the i-th run of this process call, what its run returned
\* as a sequence of values, its declared output keys, and the frame right
\* after its outputs were merged.
CallStep(i) == stepDicts[CurSteps[calls[i].step]]
Returned(i) == IF calls[i].ret.isTuple THEN calls[i].ret.items ELSE <<calls[i].ret.value>>
OutKeys(i) == IF CallStep(i).hasOutput THEN CallStep(i).output ELSE <<>>
FrameAfter(i) == IF i < Len(calls) THEN calls[i + 1].before ELSE data_dict

\* Step i wrote key k and step j > i declares k as its q-th input
Feeds(i, k, j, q) ==
    /\ i < j
    /\ k \in DOMAIN calls[i].d
    /\ q \in DOMAIN CallStep(j).input
    /\ CallStep(j).input[q] = k

\* C1 as stated: within one process call every later step that declares as
\* input a key written by step i receives the value step i wrote.
C1_EveryLaterStepSeesStepK ==
    \A i \in DOMAIN calls : \A j \in DOMAIN calls : \A k \in DOMAIN calls[i].d :
        \A q \in DOMAIN CallStep(j).input :
            Feeds(i, k, j, q) => calls[j].inputs[q] = calls[i].d[k]

\* C1 (amended): the steps run in declaration order, one at a time; step i+1
\* reads its inputs from the frame that holds step i's merged outputs; and a
\* later step that declares as input a key written by step i receives the
\* value step i wrote unless a step in between wrote that key again.
C1_DeclaredOrder ==
    /\ \A i \in DOMAIN calls : calls[i].step = i
    /\ pc = "running" => Len(calls) = curStep - 1
    /\ \A i \in DOMAIN calls : \A k \in DOMAIN calls[i].d : FrameAfter(i)[k] = calls[i].d[k]
    /\ \A i \in DOMAIN calls : \A j \in DOMAIN calls : \A k \in DOMAIN calls[i].d :
        \A q \in DOMAIN CallStep(j).input :
            (Feeds(i, k, j, q) /\ \A m \in (i + 1)..(j - 1) : k \notin DOMAIN calls[m].d)
                => calls[j].inputs[q] = calls[i].d[k]

\* C1 witness: a step two places after the writer receives the writer's value
C1_Witness ==
    \E i \in DOMAIN calls : \E k \in DOMAIN calls[i].d :
        /\ i + 2 \in DOMAIN calls
        /\ \E q \in DOMAIN CallStep(i + 2).input : Feeds(i, k, i + 2, q)
        /\ \E q \in DOMAIN CallStep(i + 1).input : Feeds(i, k, i + 1, q)
        /\ k \notin DOMAIN calls[i + 1].d

\* C2: a run that returned r values for o declared output keys binds exactly
\* the first min(r, o) keys, positionally; surplus values are dropped, surplus
\* keys stay unbound, and the loop goes on (no error), also when o = 0 or the
\* step has no 'output' entry.
C2_Truncation ==
    \A i \in DOMAIN calls :
        LET r == Len(Returned(i))
            keys == OutKeys(i)
            m == IF r < Len(keys) THEN r ELSE Len(keys)
        IN  /\ DOMAIN calls[i].d = {keys[n] : n \in 1..m}
            /\ \A n \in 1..m : FrameAfter(i)[keys[n]] = Returned(i)[n]
            /\ \A n \in (m + 1)..Len(keys) :
                   keys[n] \in DOMAIN FrameAfter(i) <=> keys[n] \in DOMAIN calls[i].before
            /\ DOMAIN FrameAfter(i) = (DOMAIN calls[i].before) \cup {keys[n] : n \in 1..m}
            /\ (pc = "running" \/ outcome = "returned") => curStep > i

\* C2 witness: one process call with a step returning more values than keys,
\* one returning fewer, one with an empty output list or none at all
C2_Witness ==
    /\ outcome = "returned"
    /\ \E i \in DOMAIN calls : Len(Returned(i)) > Len(OutKeys(i)) /\ Len(OutKeys(i)) >= 1
    /\ \E i \in DOMAIN calls : Len(Returned(i)) < Len(OutKeys(i))
    /\ \E i \in DOMAIN calls : ~CallStep(i).hasOutput \/ CallStep(i).output = <<>>

\* C3: a returned object that is not a list or tuple (an array, None, ...) is
\* bound whole to the step's first output key and to no other.
C3_SingleValue ==
    \A i \in DOMAIN calls :
        ~calls[i].ret.isTuple =>
            /\ Len(OutKeys(i)) >= 1 =>
                   /\ OutKeys(i)[1] \in DOMAIN FrameAfter(i)
                   /\ FrameAfter(i)[OutKeys(i)[1]] = calls[i].ret.value
            /\ \A n \in 2..Len(OutKeys(i)) :
                   /\ OutKeys(i)[n] \notin DOMAIN calls[i].d
                   /\ OutKeys(i)[n] \in DOMAIN FrameAfter(i) <=>
                          OutKeys(i)[n] \in DOMAIN calls[i].before

\* C3 witness: a run that returned nothing, bound to its one key, and a run
\* that returned an array for two keys
C3_Witness ==
    /\ \E i \in DOMAIN calls :
           /\ ~calls[i].ret.isTuple /\ calls[i].ret.value = None
           /\ Len(OutKeys(i)) = 1 /\ data_dict[OutKeys(i)[1]] = None
    /\ \E i \in DOMAIN calls :
           /\ ~calls[i].ret.isTuple /\ calls[i].ret.value.kind = "array"
           /\ Len(OutKeys(i)) = 2
           /\ FrameAfter(i)[OutKeys(i)[1]] = calls[i].ret.value
           /\ OutKeys(i)[2] \notin DOMAIN FrameAfter(i)


\* The frame of this process call lacks a key the step at curStep declares as
\* input (or lacks image_number at the entry of process, curStep = 0)
AbsentKeyNow ==
    \/ curStep = 0 /\ "image_number" \notin DOMAIN frame0
    \/ /\ curStep \in DOMAIN CurSteps
       /\ \E q \in DOMAIN CurStepDict.input : CurStepDict.input[q] \notin DOMAIN data_dict

\* C4: run is invoked only on a step whose declared input keys are all in the
\* frame; a process call that finds one absent ends with KeyError at that
\* step, with only the steps before it run, and never returns normally; the
\* loop always has a step with an instance to go on with, or returns; and a
\* KeyError is raised only for a key absent from this call's frame, so after
\* a failed call a frame holding every required key is processed to the end.
C4_MissingKey ==
    /\ \A i \in DOMAIN calls : \A q \in DOMAIN CallStep(i).input :
           CallStep(i).input[q] \in DOMAIN calls[i].before
    /\ (pc = "idle" /\ outcome = "KeyError") =>
           /\ AbsentKeyNow
           /\ Len(calls) = (IF curStep = 0 THEN 0 ELSE curStep - 1)
           /\ \A i \in DOMAIN calls : calls[i].step < curStep
    /\ (pc = "idle" /\ outcome = "returned") =>
           /\ Len(calls) = Len(CurSteps)
           /\ \A i \in DOMAIN calls : calls[i].step = i
    /\ pc = "running" =>
           /\ curStep \in 1..(Len(CurSteps) + 1)
           /\ curStep <= Len(CurSteps) =>
                  CurStepDict.hasInstance /\ CurStepDict.instance \in DOMAIN instances
    /\ (pc = "idle" /\ nframes >= 1) => outcome \in {"returned", "KeyError"}

\* C4 witness: a call stopped at its second step or later by an absent key,
\* and the next call on the same Pipeline ran every step and returned
C4_Witness ==
    /\ pc = "idle"
    /\ prevOutcome.result = "KeyError" /\ prevOutcome.step >= 2
    /\ outcome = "returned"
    /\ Len(calls) >= 2

\* C5 as stated: a process call that ends in an error leaves the state of
\* every step instance as it was before the call.
C5_FailedFrameKeepsState ==
    (pc = "idle" /\ outcome = "KeyError") => instances = instances0

\* C6: during process the frame keeps every key it had at the call; a step
\* adds or overwrites only keys it declares as output and leaves every other
\* key and value alone; the frame returned holds every key of the input frame.
C6_FrameGrows ==
    /\ DOMAIN frame0 \subseteq DOMAIN data_dict
    /\ \A i \in DOMAIN calls :
           /\ DOMAIN frame0 \subseteq DOMAIN calls[i].before
           /\ DOMAIN calls[i].before \subseteq DOMAIN FrameAfter(i)
           /\ \A k \in DOMAIN FrameAfter(i) :
                  k \notin Range(OutKeys(i)) =>
                      k \in DOMAIN calls[i].before /\ FrameAfter(i)[k] = calls[i].before[k]

\* C6 witness: a returned frame with a key added and an input key overwritten
C6_Witness ==
    /\ pc = "idle" /\ outcome = "returned"
    /\ \E k \in DOMAIN frame0 : data_dict[k] # frame0[k]
    /\ \E k \in DOMAIN data_dict : k \notin DOMAIN frame0


(***************************************************************************)
(* Properties of Pipeline.build                                            *)
(***************************************************************************)
\* The keyword args a step dict declares in the spec, and the global
\* parameters a Pipeline was constructed with
DeclaredKwargs(d) == IF declared[d].hasKwargs THEN declared[d].kwargs ELSE EmptyDict
GlobalsOf(pid) == globals0[pipelines[pid].global_parameters]

\* C7 as stated: every run made by a Pipeline's process is on a step instance
\* constructed by that Pipeline's own build.
C7_OwnInstancesOnly ==
    \A i \in DOMAIN calls : instances[calls[i].instance].pipeline = curPipe

\* C8 as stated: the keyword args of every constructor call (static and
\* runtime steps) are the union of the global parameters and the step's
\* declared keyword args, the step's value winning where both have the name.
C8_KwargsUnion ==
    \A i \in DOMAIN constructed :
        LET c == constructed[i]
            own == DeclaredKwargs(c.step)
            g == GlobalsOf(c.pipeline)
        IN  /\ DOMAIN c.kwargs = (DOMAIN own) \cup (DOMAIN g)
            /\ \A k \in DOMAIN own : c.kwargs[k] = own[k]
            /\ \A k \in (DOMAIN g) \ (DOMAIN own) : c.kwargs[k] = g[k]

\* C9 as stated: build leaves every step dict's declared keyword args as they
\* were, so each constructor call gets, for every name its step did not
\* declare, the value of the global parameters of the Pipeline being built.
C9_PureMerge ==
    /\ \A d \in DOMAIN stepDicts :
           /\ stepDicts[d].hasKwargs = declared[d].hasKwargs
           /\ stepDicts[d].kwargs = declared[d].kwargs
    /\ \A i \in DOMAIN constructed :
           \A k \in (DOMAIN GlobalsOf(constructed[i].pipeline))
                        \ (DOMAIN DeclaredKwargs(constructed[i].step)) :
               constructed[i].kwargs[k] = GlobalsOf(constructed[i].pipeline)[k]

\* C10: build never writes to a global_parameters dict: each holds the keys
\* and values it was supplied with, and each Pipeline refers to the dict it
\* was given.
C10_GlobalsUntouched ==
    /\ globalMaps = globals0
    /\ \A i \in DOMAIN constructed :
           /\ constructed[i].globals = GlobalsOf(constructed[i].pipeline)
           /\ globalMaps[pipelines[constructed[i].pipeline].global_parameters]
                  = constructed[i].globals

\* C10 witness: two Pipelines built with different global_parameters dicts,
\* a static and a runtime step among them, one step declaring its own value
\* for a global name
C10_Witness ==
    /\ Len(pipelines) = 2
    /\ pipelines[1].global_parameters # pipelines[2].global_parameters
    /\ \E i \in DOMAIN constructed : constructed[i].static
    /\ \E i \in DOMAIN constructed :
           /\ ~constructed[i].static
           /\ \E k \in DOMAIN DeclaredKwargs(constructed[i].step) :
                  /\ k \in DOMAIN constructed[i].globals
                  /\ DeclaredKwargs(constructed[i].step)[k] # constructed[i].globals[k]


(***************************************************************************)
(* Properties of Pipeline.__init__                                         *)
(***************************************************************************)
\* The step dicts (static and runtime) of the Pipeline p, and the keys of
\* the store
StepsOf(p) == Range(pipelines[p].static_pipeline) \cup Range(pipelines[p].pipeline)
Raised(i) == builds[i].raised # "none"

\* C11: a Pipeline(...) call in which a step fails (a missing entry, an
\* unresolved class name, a constructor that raises) returns no Pipeline
\* object and writes nothing to the store: the Pipeline objects are exactly
\* those of the calls that did not raise, every step of each of them was
\* constructed by its own build, the store holds entries of these Pipelines'
\* runtime steps only, and process runs on these Pipelines only, each step
\* with an instance.
C11_AllOrNothing ==
    /\ Len(pipelines) = Cardinality({i \in DOMAIN builds : ~Raised(i)})
    /\ \A i \in DOMAIN builds : Raised(i) <=> builds[i].pipeline = 0
    /\ \A i \in DOMAIN builds : ~Raised(i) => builds[i].pipeline \in DOMAIN pipelines
    /\ \A p \in DOMAIN pipelines : \A d \in StepsOf(p) :
           \E c \in DOMAIN constructed :
               constructed[c].pipeline = p /\ constructed[c].step = d
    /\ \A key \in DOMAIN store :
           /\ key[1] \in DOMAIN pipelines
           /\ key[2] + 1 \in DOMAIN pipelines[key[1]].pipeline
    /\ \A p \in DOMAIN pipelines : \A i \in DOMAIN pipelines[p].pipeline :
           <<p, i - 1, "class_name">> \in DOMAIN store
    /\ pc = "running" =>
           /\ curPipe \in DOMAIN pipelines
           /\ \A d \in Range(CurSteps) :
                  stepDicts[d].hasInstance /\ stepDicts[d].instance \in DOMAIN instances

\* C11 witness: a build that raised after it had constructed a step, beside
\* a Pipeline that was built and has processed a frame to the end
C11_Witness ==
    /\ \E i \in DOMAIN builds : Raised(i)
    /\ \E j \in DOMAIN instances : instances[j].pipeline = 0
    /\ Len(pipelines) >= 1
    /\ pc = "idle" /\ outcome = "returned"

\* A step dict of the spec lacks its name, its class name or its input list
Malformed == \E d \in DOMAIN declared :
                 ~declared[d].hasName \/ ~declared[d].hasClassName \/ ~declared[d].hasInput

\* C12 as stated: every Pipeline(...) call on a spec in which a step lacks
\* its name, its class name or its input list raises; such a spec never
\* yields a Pipeline whose process then fails on the frames.
C12_MalformedRejected ==
    /\ Malformed => \A i \in DOMAIN builds : Raised(i)
    /\ Malformed => pipelines = <<>>

\* The call of build that constructed the instance with id j
MadeBy(j) == CHOOSE c \in DOMAIN constructed : constructed[c].instance = j

\* C13: in every process call, run is invoked only on instances that build
\* constructed from the runtime step list, each the instance of a step of
\* self.pipeline, and never on an instance constructed from the static list.
C13_StaticNeverRun ==
    \A i \in DOMAIN calls :
        /\ \E c \in DOMAIN constructed : constructed[c].instance = calls[i].instance
        /\ ~constructed[MadeBy(calls[i].instance)].static
        /\ constructed[MadeBy(calls[i].instance)].step \in Range(pipelines[curPipe].pipeline)
        /\ \A c \in DOMAIN constructed :
               constructed[c].static => constructed[c].instance # calls[i].instance

\* C13 witness: the second process call of a Pipeline that has a static
\* SaveNifti step has run a runtime SaveNifti step and returned
C13_Witness ==
    /\ pc = "idle" /\ outcome = "returned" /\ nframes = 2
    /\ prevOutcome.result = "returned"
    /\ \E c \in DOMAIN constructed :
           constructed[c].static /\ instances[constructed[c].instance].class_name = "SaveNifti"
    /\ \E i \in DOMAIN calls : instances[calls[i].instance].class_name = "SaveNifti"

(***************************************************************************)
(* Properties of the statistics steps                                      *)
(***************************************************************************)
\* The runs in the log, the last reset before call i that deleted the
\* buffer (0 when there is none), and the runs of the session call i is in
RunIdx == {i \in DOMAIN log : log[i].op = "run"}
ResetsBefore(i) == {j \in 1..(i - 1) : log[j].op = "reset" /\ log[j].raised = "none"}
LastReset(i) ==
    IF ResetsBefore(i) = {} THEN 0
    ELSE CHOOSE j \in ResetsBefore(i) : \A m \in ResetsBefore(i) : m <= j
Session(i) == {j \in (LastReset(i) + 1)..i : log[j].op = "run"}
FirstOf(S) == CHOOSE j \in S : \A m \in S : j <= m

\* Element e (in C order) of the array handed to run in call j; the sum and
\* the sum of squares of that element over the calls in S
Elt(j, e) == log[j].inputs[1].a[e]
RECURSIVE SumElts(_, _)
SumElts(S, e) ==
    IF S = {} THEN Zero
    ELSE LET j == CHOOSE j \in S : TRUE IN NumAdd(Elt(j, e), SumElts(S \ {j}, e))
RECURSIVE SumSqElts(_, _)
SumSqElts(S, e) ==
    IF S = {} THEN Zero
    ELSE LET j == CHOOSE j \in S : TRUE
         IN  NumAdd(NumMul(Elt(j, e), Elt(j, e)), SumSqElts(S \ {j}, e))

\* m is the mean and s the population standard deviation of element e over
\* the k calls in S:  k * m = sum,  s >= 0,  k^2 * s^2 = k * sumsq - sum^2
IsMeanOf(m, S, e) == NumMul(Int2Num(Cardinality(S)), m) = SumElts(S, e)
IsStdOf(sd, S, e) ==
    LET k == Int2Num(Cardinality(S))
    IN  /\ IsFinite(sd) /\ sd.num >= 0
        /\ NumMul(NumMul(k, k), NumMul(sd, sd))
               = NumSub(NumMul(k, SumSqElts(S, e)), NumMul(SumElts(S, e), SumElts(S, e)))

\* The run of call i returned what the session so far calls for: the first
\* run of a session (None, None), with the sample stored; a later one the
\* mean and standard deviation over every sample of the session, the first
\* and the current one included, in the shape of the session's first sample
StatsMatch(i) ==
    LET S == Session(i)
        r == log[i].ret
    IN  /\ r.isTuple /\ Len(r.items) = 2
        /\ log[i].raised = "none"
        /\ Cardinality(S) = 1 =>
               /\ r.items[1].kind = "None" /\ r.items[2].kind = "None"
               /\ log[i].after.hasData
               /\ GetArray(log[i].after.data) = <<Ravel(log[i].inputs[1])>>
        /\ Cardinality(S) >= 2 =>
               /\ r.items[1].kind = "ndarray" /\ r.items[2].kind = "ndarray"
               /\ r.items[1].b = log[FirstOf(S)].inputs[1].b
               /\ r.items[2].b = log[FirstOf(S)].inputs[1].b
               /\ Len(r.items[1].a) = Size(log[i].inputs[1])
               /\ Len(r.items[2].a) = Size(log[i].inputs[1])
               /\ \A e \in 1..Size(log[i].inputs[1]) :
                      /\ IsMeanOf(r.items[1].a[e], S, e)
                      /\ IsStdOf(r.items[2].a[e], S, e)

C15_ResetStartsSession ==
    unit.class_name = "IncrementalMeanStd" =>
        /\ \A j \in DOMAIN log :
               (log[j].op = "reset" /\ log[j].before.hasData) =>
                   log[j].raised = "none" /\ ~log[j].after.hasData
        /\ \A i \in RunIdx : LastReset(i) > 0 => StatsMatch(i)

\* C15 witness: a run, a reset, and two more runs, the last one returning
\* statistics of two samples while three were supplied in all
C15_Witness ==
    /\ unit.class_name = "IncrementalMeanStd"
    /\ Len(log) = 4
    /\ log[1].op = "run" /\ log[2].op = "reset" /\ log[3].op = "run" /\ log[4].op = "run"
    /\ log[3].ret.items[1].kind = "None"
    /\ log[4].ret.items[1].kind = "ndarray"
    /\ Elt(1, 1) # Elt(3, 1) /\ Elt(3, 1) # Elt(4, 1)

\* RunningMeanStd: the runs of the log that were not bypassed, up to call i
Bypassed(j) == log[j].inputs[2].a < log[j].before.attrs.n_skip
RealRuns(i) == {j \in 1..i : log[j].op = "run" /\ ~Bypassed(j)}
\* the m-th (m >= 1) of the calls in S, in the order they were made
RECURSIVE NthOf(_, _)
NthOf(S, m) == IF m = 1 THEN FirstOf(S) ELSE NthOf(S \ {FirstOf(S)}, m - 1)
\* row r of a two-dimensional array
RowOf(samples, r) == SubSeq(samples.a, (r - 1) * samples.b[2] + 1, r * samples.b[2])

\* C16: a run of RunningMeanStd with image_number below n_skip returns
\* (zeros, ones) of the size of its input and leaves the instance (window,
\* mean, std) as it was, whatever was run before it; a run with image_number
\* at or above n_skip puts its input in the last row of the window.
C16_BypassByImageNumber ==
    unit.class_name = "RunningMeanStd" =>
        \A i \in DOMAIN log :
            /\ log[i].raised = "none"
            /\ Bypassed(i) =>
                   /\ log[i].ret.isTuple
                   /\ log[i].ret.items = <<Zeros(Size(log[i].inputs[1])),
                                           Ones(Size(log[i].inputs[1]))>>
                   /\ log[i].after = log[i].before
            /\ ~Bypassed(i) =>
                   /\ log[i].after.attrs.samples.kind = "ndarray"
                   /\ RowOf(log[i].after.attrs.samples, log[i].after.attrs.n)
                          = log[i].inputs[1].a
                   /\ log[i].after.attrs.mean.kind = "ndarray"

\* C16 witness: with n_skip = 1, a bypassed run before any sample went in,
\* then a real run, then a bypassed run again (image_number 0 came late)
C16_Witness ==
    /\ unit.class_name = "RunningMeanStd"
    /\ Len(log) = 3
    /\ Bypassed(1) /\ ~Bypassed(2) /\ Bypassed(3)
    /\ log[3].after.attrs.mean.kind = "ndarray"

\* C17: after the k-th run of RunningMeanStd that was not bypassed, the
\* window of n rows holds the latest min(k, n) samples in arrival order in
\* its last min(k, n) rows and nan in every row above, and the mean returned
\* is, element by element, the average of those min(k, n) samples.
C17_WindowInvariant ==
    unit.class_name = "RunningMeanStd" =>
        \A i \in DOMAIN log : ~Bypassed(i) =>
            LET S == RealRuns(i)
                k == Cardinality(S)
                n == log[i].after.attrs.n
                held == IF k < n THEN k ELSE n
                w == log[i].after.attrs.samples
                latest == {j \in S : Cardinality({m \in S : m > j}) < held}
            IN  /\ w.b = <<n, Size(log[i].inputs[1])>>
                /\ \A r \in 1..(n - held) : \A e \in 1..w.b[2] : IsNaN(RowOf(w, r)[e])
                /\ \A r \in (n - held + 1)..n :
                       RowOf(w, r) = log[NthOf(S, k - (n - r))].inputs[1].a
                /\ Cardinality(latest) = held
                /\ \A e \in 1..w.b[2] : IsMeanOf(log[i].ret.items[1].a[e], latest, e)
                /\ log[i].after.attrs.mean = log[i].ret.items[1]

\* C17 witness: a window of two rows after one sample (one row still nan)
\* and after three samples (the first one discarded)
C17_Witness ==
    /\ unit.class_name = "RunningMeanStd"
    /\ unit.attrs.n = 2
    /\ Len(log) = 3 /\ RealRuns(3) = {1, 2, 3}
    /\ IsNaN(RowOf(log[1].after.attrs.samples, 1)[1])
    /\ log[1].inputs[1] # log[2].inputs[1]
    /\ RowOf(unit.attrs.samples, 1) = log[2].inputs[1].a
    /\ RowOf(unit.attrs.samples, 2) = log[3].inputs[1].a

\* The quotient q is (x - m) / sd as IEEE 754 defines it
IsQuotient(q, x, m, sd) ==
    IF sd = Zero
    THEN /\ ~IsFinite(q)
         /\ q.num = Sign(NumSub(x, m).num)
    ELSE IsFinite(q) /\ NumMul(q, sd) = NumSub(x, m)

\* C18: ZScore.run(array, mean, std) with mean None returns zeros in the
\* shape of array, whatever std is; with arrays for mean and std it returns
\* (array - mean) / std element by element, in the shape of array (a zero
\* std gives inf, -inf or nan); the instance is the same after every call.
C18_ZScore ==
    unit.class_name = "ZScore" =>
        \A i \in DOMAIN log :
            LET array == log[i].inputs[1]
                mean == log[i].inputs[2]
                std == log[i].inputs[3]
                z == log[i].ret.value
            IN  /\ log[i].after = log[i].before
                /\ mean.kind = "None" =>
                       /\ log[i].raised = "none" /\ ~log[i].ret.isTuple
                       /\ z.kind = "ndarray" /\ z.b = array.b
                       /\ Len(z.a) = Size(array)
                       /\ \A e \in 1..Size(array) : z.a[e] = Zero
                /\ (mean.kind # "None" /\ std.kind # "None") =>
                       /\ log[i].raised = "none" /\ ~log[i].ret.isTuple
                       /\ z.kind = "ndarray" /\ z.b = array.b
                       /\ Len(z.a) = Size(array)
                       /\ \A e \in 1..Size(array) :
                              IsQuotient(z.a[e], array.a[e], mean.a[e], std.a[e])

\* C18 witness: a call with mean None and std an array, then a call with
\* arrays for both whose result has a finite non-zero element and a
\* non-finite one
C18_Witness ==
    /\ unit.class_name = "ZScore"
    /\ Len(log) = 2
    /\ log[1].inputs[2].kind = "None" /\ log[1].inputs[3].kind = "ndarray"
    /\ log[2].inputs[2].kind = "ndarray" /\ log[2].inputs[3].kind = "ndarray"
    /\ \E e \in 1..2 : IsFinite(log[2].ret.value.a[e]) /\ log[2].ret.value.a[e] # Zero
    /\ \E e \in 1..2 : ~IsFinite(log[2].ret.value.a[e])


(***************************************************************************)
(* C19: the z-scoring pipeline end to end                                  *)
(***************************************************************************)
\* The C-order positions at which the mask of the gm_mask step is True
GmPositions ==
    LET mask == CortexMasks[IF declared[1].hasKwargs THEN declared[1].kwargs["mask_type"]
                            ELSE "None"]
        Kept(p) == mask.a[p]
    IN  SelectSeq([p \in 1..GridSize |-> p], Kept)
\* Voxel e of the masked vector of the i-th delivery
Masked(i, e) == scans[i].a[GmPositions[e]]
\* The deliveries up to the k-th that held a volume
Delivered(k) == {i \in 1..k : scans[i].kind = "ndarray"}
RECURSIVE SumMasked(_, _, _)
SumMasked(S, e, squared) ==
    IF S = {} THEN Zero
    ELSE LET i == CHOOSE j \in S : TRUE
             x == Masked(i, e)
         IN  NumAdd(IF squared THEN NumMul(x, x) ELSE x, SumMasked(S \ {i}, e, squared))
MeanOfMasked(m, S, e) == NumMul(Int2Num(Cardinality(S)), m) = SumMasked(S, e, FALSE)
StdOfMasked(sd, S, e) ==
    LET k == Int2Num(Cardinality(S))
    IN  /\ IsFinite(sd) /\ sd.num >= 0
        /\ NumMul(NumMul(k, k), NumMul(sd, sd))
               = NumSub(NumMul(k, SumMasked(S, e, TRUE)),
                        NumMul(SumMasked(S, e, FALSE), SumMasked(S, e, FALSE)))
\* process has just returned the frame of a delivery that held a volume
FrameDone ==
    /\ pc = "idle" /\ outcome = "returned" /\ nframes >= 1
    /\ scans[nframes].kind = "ndarray"

\* C19: when the pipeline ApplyMask -> IncrementalMeanStd -> ZScore returns
\* the frame of the k-th volume, the frame's z is a vector over the masked
\* voxels; for the first volume it is all zeros and the frame's mean and std
\* are None; for a later one each element is (x_k - mean) / std, with mean
\* and std the population statistics of the masked vectors x_1..x_k of
\* every volume so far, the current one included.
C19_EndToEndZScore ==
    FrameDone =>
        LET S == Delivered(nframes)
            z == data_dict["z"]
        IN  /\ z.kind = "ndarray" /\ z.b = <<Len(GmPositions)>>
            /\ Len(z.a) = Len(GmPositions)
            /\ IF Cardinality(S) = 1
               THEN /\ data_dict["mean"].kind = "None"
                    /\ data_dict["std"].kind = "None"
                    /\ \A e \in 1..Len(GmPositions) : z.a[e] = Zero
               ELSE \A e \in 1..Len(GmPositions) :
                        \E m \in {data_dict["mean"].a[e]} : \E sd \in {data_dict["std"].a[e]} :
                            /\ MeanOfMasked(m, S, e)
                            /\ StdOfMasked(sd, S, e)
                            /\ IsQuotient(z.a[e], Masked(nframes, e), m, sd)

\* Three volumes went through a three-voxel mask; the third frame's z has a
\* finite element that is not zero, and the first frame had gone the
\* sentinel way (the buffer holds three samples)
C19_Witness ==
    /\ FrameDone /\ nframes = 3 /\ Delivered(3) = {1, 2, 3}
    /\ Len(GmPositions) = 3
    /\ \E e \in 1..3 : IsFinite(data_dict["z"].a[e]) /\ data_dict["z"].a[e] # Zero
    /\ Len(instances[2].data) = 3


(***************************************************************************)
(* C20: mask composition                                                   *)
(***************************************************************************)
TrueSet(mask) == {p \in 1..GridSize : mask.a[p]}
\* process has returned the frame of a volume that went through the primary
\* mask, the secondary mask and the direct mask
MasksApplied ==
    /\ pc = "idle" /\ outcome = "returned" /\ nframes = 1
    /\ Len(calls) = 3

\* C20: for masks m1 and m2 over the grid with m2 a subset of m1 and any
\* volume, the vector ApplySecondaryMask (built from m1 and m2) returns for
\* the vector ApplyMask (m1) returned for the volume is the vector ApplyMask
\* (m2) returns for the volume: the same elements in the same order, which
\* are the voxels of the volume at the true positions of m2 in C order.
C20_MaskComposition ==
    (MasksApplied /\ TrueSet(maskDb["roi"]) \subseteq TrueSet(maskDb["primary"])) =>
        LET Kept(p) == maskDb["roi"].a[p]
            positions == SelectSeq([p \in 1..GridSize |-> p], Kept)
        IN  /\ data_dict["roi_of_gm"] = data_dict["roi"]
            /\ data_dict["roi"].b = <<Len(positions)>>
            /\ data_dict["roi"].a = [e \in 1..Len(positions) |-> scans[1].a[positions[e]]]

\* The volume of distinct voxels went through a primary mask of three voxels
\* that leaves out the first, and a secondary mask of two of them that are
\* not next to each other in the volume
C20_Witness ==
    /\ MasksApplied
    /\ scans[1] = Arange
    /\ TrueSet(maskDb["primary"]) = {2, 3, 4}
    /\ TrueSet(maskDb["roi"]) = {2, 4}
    /\ data_dict["roi_of_gm"].a = <<Int2Num(2), Int2Num(4)>>


(***************************************************************************)
(* C21: one frame at a time, in delivery order                             *)
(***************************************************************************)
\* The positions in the channel, among the first n, of the messages that
\* carry a volume
RECURSIVE VolumePositions(_)
VolumePositions(n) ==
    IF n = 0 THEN <<>>
    ELSE LET m == channel[n]
             carries == /\ m.type = "message"
                        /\ m.data.kind = "bytes"
                        /\ m.data.a.py = "dict"
                        /\ "volume" \in DOMAIN m.data.a.items
         IN  VolumePositions(n - 1) \o (IF carries THEN <<n>> ELSE <<>>)
VolumeAt(n) == channel[n].data.a.items["volume"]
\* The samples the IncrementalMeanStd step of the Pipeline holds
SamplesHeld == instances[stepDicts[2].instance].data

\* C21: the receive loop takes a message only when no process call is on the
\* stack and the one before has returned; the frame of a process call is made
\* of the message taken last; and the samples the stateful step holds are the
\* volumes of the messages taken so far, each once, in the order they were
\* published (the last one is missing while its process call has not reached
\* the step yet).
C21_OneAtATimeInOrder ==
    /\ [][nread' # nread => (pc = "idle" /\ outcome \in {"none", "returned"})]_vars
    /\ [][nframes' # nframes => (nread' = nread + 1 /\ pc = "idle" /\ pc' = "running")]_vars
    /\ [](LET taken == VolumePositions(nread)
          IN  /\ nframes = Len(taken)
              /\ nframes > 0 => frame0["raw_image_nii"] = VolumeAt(taken[nframes])
              /\ Len(SamplesHeld) \in {Len(taken) - 1, Len(taken)}
              /\ (pc = "idle" /\ loop = "listening") => Len(SamplesHeld) = Len(taken)
              /\ \A i \in 1..Len(SamplesHeld) :
                     SamplesHeld[i] = Arr(VolumeAt(taken[i]).a, 0))

\* Three volumes were published and processed; the step holds the three,
\* which are not three of a kind, in the order of publication
C21_Witness ==
    /\ pc = "idle" /\ outcome = "returned" /\ nframes = 3
    /\ Len(SamplesHeld) = 3
    /\ SamplesHeld[1] # SamplesHeld[2]
    /\ SamplesHeld[2] = SamplesHeld[3]
    /\ \A i \in 1..3 : SamplesHeld[i] = Arr(VolumeAt(i + 1).a, 0)


(***************************************************************************)
(* C22, C23: the manifest of a Pipeline in the store                       *)
(***************************************************************************)
\* The instance build constructed for the runtime step at (1-based) position
\* i of the Pipeline p
RuntimeInstance(p, i) ==
    LET c == CHOOSE c \in DOMAIN constructed :
                 /\ constructed[c].pipeline = p
                 /\ ~constructed[c].static
                 /\ constructed[c].step = pipelines[p].pipeline[i]
    IN  instances[constructed[c].instance]

\* C22 as stated: for every Pipeline and every runtime step at index i, the
\* store holds pipeline:<id>:<i>:class_name with the step's class, and
\* pipeline:<id>:<i>:<p> with the value of every parameter p of the step.
C22_ManifestComplete ==
    \A p \in DOMAIN pipelines : \A i \in DOMAIN pipelines[p].pipeline :
        LET inst == RuntimeInstance(p, i)
        IN  /\ <<p, i - 1, "class_name">> \in DOMAIN store
            /\ store[<<p, i - 1, "class_name">>] = inst.class_name
            /\ \A k \in DOMAIN inst.parameters :
                   /\ <<p, i - 1, k>> \in DOMAIN store
                   /\ store[<<p, i - 1, k>>] = inst.parameters[k]

\* A Pipeline came back from its constructor in this step
Constructs == Len(pipelines') = Len(pipelines) + 1 /\ pc = "idle" /\ pc' = "idle"

\* The store changes only in a step that constructs a Pipeline, and what it
\* held before stays as it was
StoreWrittenByConstructorOnly ==
    [][(store' # store \/ writes' # writes)
           => /\ Constructs
              /\ \A key \in DOMAIN store : key \in DOMAIN store' /\ store'[key] = store[key]
              /\ \A key \in DOMAIN writes : writes'[key] = writes[key]]_vars

\* C23 as stated: every entry of the store was written by exactly one r.set
\* call; the store is written only in a step that constructs a Pipeline
\* (after its steps are built), which leaves the entries of the Pipelines
\* before it alone; no step of a process call writes, overwrites or deletes
\* an entry.
C23_WriteOnce ==
    /\ [](\A key \in DOMAIN store : key \in DOMAIN writes /\ writes[key] = 1)
    /\ StoreWrittenByConstructorOnly


(***************************************************************************)
(* C24: ArrayMean                                                          *)
(***************************************************************************)
\* The coordinates (0-based) of the element at C-order position p of a
\* vector or a matrix, and those among them on the axes that are kept
CoordsOf(shape, p) ==
    IF Len(shape) = 0 THEN <<>>
    ELSE IF Len(shape) = 1 THEN <<p - 1>>
    ELSE <<(p - 1) \div shape[2], (p - 1) % shape[2]>>
KeptCoords(shape, p, over) ==
    LET Kept(d) == (d - 1) \notin over
    IN  [i \in 1..Len(SelectSeq([d \in 1..Len(shape) |-> d], Kept)) |->
            CoordsOf(shape, p)[SelectSeq([d \in 1..Len(shape) |-> d], Kept)[i]]]
RECURSIVE SumAt(_, _)
SumAt(array, P) ==
    IF P = {} THEN Zero
    ELSE LET p == CHOOSE q \in P : TRUE IN NumAdd(array.a[p], SumAt(array, P \ {p}))
\* out is the mean of array over the axes in over: out has the shape of the
\* kept axes, and each of its elements times the number of elements of array
\* that share its kept coordinates is their sum
IsMeanOver(out, array, over) ==
    LET Kept(d) == (d - 1) \notin over
        keptShape == [i \in 1..Len(SelectSeq([d \in 1..Len(array.b) |-> d], Kept)) |->
                         array.b[SelectSeq([d \in 1..Len(array.b) |-> d], Kept)[i]]]
    IN  /\ out.kind = "ndarray"
        /\ out.b = keptShape
        /\ \A e \in 1..Len(out.a) :
               LET P == {p \in 1..Len(array.a) :
                            KeptCoords(array.b, p, over) = CoordsOf(keptShape, e)}
               IN  /\ P # {}
                   /\ NumMul(Int2Num(Cardinality(P)), out.a[e]) = SumAt(array, P)
AllAxes(array) == 0..(Len(array.b) - 1)

\* Every run of the ArrayMean instance on an array that has the configured
\* axes returned the mean over them (over all of them for None) and left the
\* instance as it was
ArrayMeanRunIsMean ==
    unit.class_name = "ArrayMean" =>
        \A i \in DOMAIN log :
            LET array == log[i].inputs[1]
                dims == unit.parameters["dimensions"]
                over == IF dims.kind = "None" THEN AllAxes(array) ELSE Range(dims.a)
            IN  over \subseteq AllAxes(array) =>
                    /\ log[i].raised = "none"
                    /\ ~log[i].ret.isTuple
                    /\ IsMeanOver(log[i].ret.value, array, over)
                    /\ log[i].after = log[i].before

\* C24 as stated: ArrayMean(dimensions) constructs, for a list of dimensions
\* and for None; its run returns the mean of the array over the configured
\* dimensions, and the mean of all the values of the array when dimensions
\* is None.
C24_ArrayMean ==
    /\ \A i \in DOMAIN log :
           (log[i].op = "new" /\ log[i].inputs[1] = "ArrayMean") => log[i].raised = "none"
    /\ ArrayMeanRunIsMean


(***************************************************************************)
(* C25: what a per-frame error tells its caller                            *)
(***************************************************************************)
\* C25 as stated: an exception that process raises at a step carries the
\* image_number of the frame it was called with and the name of that step.
C25_ErrorCarriesContext ==
    (pc = "idle" /\ outcome = "KeyError" /\ curStep >= 1) =>
        /\ \E i \in DOMAIN error.args :
               /\ error.args[i].kind = "int"
               /\ error.args[i].a = frame0["image_number"].a
        /\ \E i \in DOMAIN error.args :
               /\ error.args[i].kind = "str"
               /\ error.args[i].a = CurStepDict.name


(***************************************************************************)
(* C26, C27, C28: the collector and what it hands to preprocess            *)
(***************************************************************************)
\* The positions in a subscription, among the first n, of the published
\* messages (everything but the subscribe confirmation)
Published(msgs, n) == {j \in 1..n : msgs[j].type = "message"}
\* The list [image_number, timestamp, nii] of the j-th message of the channel
TimestampedVolume(j) == channel[j].data.a.items

\* C26 as stated: every message of the 'timestamped_volume' channel that the
\* receive loop has taken was accepted and made a frame handed to process:
\* the loop has not raised, and process was called once for each of them.
C26_PublishedVolumesProcessed ==
    /\ loop = "listening"
    /\ nframes = Cardinality(Published(channel, nread))

\* C27 as stated: the k-th volume the collector publishes (k = 0, 1, ...)
\* has image_number k, so that for every n_skip s the volumes a
\* RunningMeanStd bypasses (image_number < s) are the first s published.
C27_NumberedFromZero ==
    /\ \A j \in Published(channel, Len(channel)) : TimestampedVolume(j)[1].a = j - 2
    /\ \A s \in 0..MaxSkip :
           Cardinality({j \in Published(channel, Len(channel)) :
                            TimestampedVolume(j)[1].a < s})
               = Min(s, Cardinality(Published(channel, Len(channel))))

\* C28 as stated: the collector never stops; for every volume message it has
\* taken there is one timestamped volume published, in order, with that
\* volume, and one entry of the list consumed; and no two published volumes
\* have the same timestamp.
C28_OnePerVolume ==
    LET taken == Published(volumeMsgs, cread)
        out == Published(channel, Len(channel))
    IN  /\ collector = "listening"
        /\ Cardinality(out) = Cardinality(taken)
        /\ \A j \in out : \A k \in out :
               TimestampedVolume(j)[2].a = TimestampedVolume(k)[2].a => j = k
        /\ \A j \in out : TimestampedVolume(j)[3] = Nii(volumeMsgs[j].data.a)


\* C29: reset on an IncrementalMeanStd may be called in any state: on an
\* instance that has never run, or for the second time in a row, it raises
\* nothing and leaves the instance without data, and the run that follows
\* returns (None, None).
C29_ResetInAnyState ==
    unit.class_name = "IncrementalMeanStd" =>
        \A j \in DOMAIN log :
            log[j].op = "reset" =>
                /\ log[j].raised = "none"
                /\ ~log[j].after.hasData
                /\ (j < Len(log) /\ log[j + 1].op = "run") =>
                       /\ log[j + 1].ret.isTuple
                       /\ \A e \in DOMAIN log[j + 1].ret.items :
                              log[j + 1].ret.items[e].kind = "None"


\* The pulse times sent so far, and the pulse times still on their way: the
\* one consume_sync_queue holds between get and send, then the queue
SentTimes == [i \in DOMAIN sent |-> Unpack(sent[i])]
OnTheWay ==
    (IF consumeTask.pc = "send" THEN <<consumeTask.recv_time>> ELSE <<>>)
        \o scanner.sync_queue

====
